---- MODULE Spec2Model ----
(***************************************************************************)
(* A model of the RAG orchestration core: the text chunker                 *)
(* (app/rag/processing/chunking.py), the keyword index and rank fusion     *)
(* (app/rag/retrieval), the workflow graph and its nodes                   *)
(* (app/rag/workflow) and RAGPipeline.process_query (app/rag/pipeline.py). *)
(*                                                                         *)
(* Texts and queries are sequences of one-character strings, so that       *)
(* slicing, rfind, strip, lower and the `in` substring test are computed   *)
(* as Python computes them.  Messages (answers, errors) are strings built  *)
(* with \o the way the f-strings build them.  An Optional value is None    *)
(* (the empty tuple) or Some(v) (a one-element tuple).                     *)
(***************************************************************************)
EXTENDS Integers, Sequences, FiniteSets, TLC

VARIABLES
    \* ---- TextChunker.chunk_text ----
    text,           \* the text being chunked (sequence of characters)
    chunk_size,     \* constructor argument chunk_size
    chunk_overlap,  \* constructor argument chunk_overlap
    start,          \* loop variable `start`
    chunks,         \* the list `chunks` built so far
    cpc,            \* position in chunk_text: "entry", "loop", "done", "off"
    \* ---- process_query, one per request ----
    pc,             \* position of each request
    st,             \* the RAGState of each request
    ran,            \* the nodes the graph engine has executed, in order
    index,          \* BM25Retriever state of every HybridRetriever instance
    searched,       \* corpus of the index retrieval searched (None before)
    calls,          \* collaborator calls made for the request, in order
    resp,           \* response returned by process_query (None before)
    reranker_model, \* Reranker.model is set (FALSE: CrossEncoder failed to load)
    \* ---- TextChunker.chunk_text_by_pages ----
    page_texts,     \* the argument page_texts: a list of [page, text]
    page_pos,       \* number of pages the for loop has consumed
    all_chunks,     \* the list `all_chunks` built so far
    global_chunk_index, \* the counter `global_chunk_index`
    \* ---- a component called on its own ----
    call            \* the call: its name, arguments, and result once made

cvars == <<text, chunk_size, chunk_overlap, start, chunks, cpc>>
pvars == <<pc, st, ran, index, searched, calls, resp, reranker_model>>
uvars == <<page_texts, page_pos, all_chunks, global_chunk_index, call>>
vars == <<text, chunk_size, chunk_overlap, start, chunks, cpc,
          pc, st, ran, index, searched, calls, resp, reranker_model,
          page_texts, page_pos, all_chunks, global_chunk_index, call>>

-----------------------------------------------------------------------------
(* Python values *)

None == <<>>
Some(v) == <<v>>

Min(a, b) == IF a < b THEN a ELSE b
Max(a, b) == IF a > b THEN a ELSE b

\* s[i:j] on a sequence, 0-based, clamped like a Python slice (0 <= i).
Slice(s, i, j) == SubSeq(s, i + 1, Min(j, Len(s)))

\* s.rfind(sub, lo, hi): the highest 0-based k with lo <= k, k + len(sub) <= hi
\* (hi clamped to len(s)) and s[k:k+len(sub)] = sub; -1 if there is none.
rfind(s, sub, lo, hi) ==
    LET h == Min(hi, Len(s))
        hits == {k \in lo..(h - Len(sub)) : SubSeq(s, k + 1, k + Len(sub)) = sub}
    IN IF hits = {} THEN -1 ELSE CHOOSE k \in hits : \A m \in hits : m <= k

\* sub in s
Contains(s, sub) == rfind(s, sub, 0, Len(s)) # -1

IsSpace(c) == c \in {" ", "\n"}

\* s.strip()
RECURSIVE lstrip(_)
lstrip(s) == IF s # <<>> /\ IsSpace(Head(s)) THEN lstrip(Tail(s)) ELSE s
RECURSIVE rstrip(_)
rstrip(s) ==
    IF s # <<>> /\ IsSpace(s[Len(s)]) THEN rstrip(SubSeq(s, 1, Len(s) - 1)) ELSE s
strip(s) == lstrip(rstrip(s))

-----------------------------------------------------------------------------
(* TextChunker *)

\* Bounds of the chunker's inputs.
MaxLen == 4
MaxSize == 3

\* settings.CHUNK_SIZE and settings.CHUNK_OVERLAP
CHUNK_SIZE == 1000
CHUNK_OVERLAP == 200

Alphabet == {"a", " ", "."}

Texts == UNION {[1..n -> Alphabet] : n \in 0..MaxLen}

\* TextChunker.__init__: `chunk_size or settings.CHUNK_SIZE`
self_chunk_size == IF chunk_size # 0 THEN chunk_size ELSE CHUNK_SIZE
\* TextChunker.__init__: `chunk_overlap or settings.CHUNK_OVERLAP`
self_chunk_overlap == IF chunk_overlap # 0 THEN chunk_overlap ELSE CHUNK_OVERLAP

\* The boundary markers tried in order.
Boundaries == << <<".", " ">>, <<"?", " ">>, <<"!", " ">>, <<"\n", "\n">>, <<"\n">> >>

\* The for/else of chunk_text: the first boundary found in text[s:e] cuts
\* after it; if none is found, the last space cuts; else the raw edge e.
BoundaryCut(t, s, e) ==
    LET found == {i \in 1..Len(Boundaries) : rfind(t, Boundaries[i], s, e) # -1}
    IN IF found # {}
       THEN LET i == CHOOSE j \in found : \A m \in found : j <= m
            IN rfind(t, Boundaries[i], s, e) + Len(Boundaries[i])
       ELSE LET space_pos == rfind(t, <<" ">>, s, e)
            IN IF space_pos # -1 THEN space_pos + 1 ELSE e

\* `end` of the chunk that starts at s.
ChunkEnd(t, s, size) ==
    LET e0 == s + size
        e1 == IF e0 < Len(t) THEN BoundaryCut(t, s, e0) ELSE e0
    IN IF e1 <= s THEN Min(s + size, Len(t)) ELSE e1

\* The forced step taken when `end - overlap` does not pass prev_start.
ForcedStart_swapped(prev_start, size, overlap) == prev_start + Max(1, overlap)
ForcedStart(prev_start, size, overlap) == prev_start + Max(1, size - overlap)

\* `start` of the next chunk.
NextStart_stay(prev_start, end, size, overlap) ==
    IF end - overlap <= prev_start THEN prev_start ELSE end - overlap
NextStart(prev_start, end, size, overlap) ==
    IF end - overlap <= prev_start
    THEN ForcedStart(prev_start, size, overlap)
    ELSE end - overlap

\* `if not text or not text.strip()`
IsBlank(t) == t = <<>> \/ strip(t) = <<>>

\* chunk_text up to the loop: blank text returns [].
ChunkEnter ==
    /\ cpc = "entry"
    /\ cpc' = IF IsBlank(text) THEN "done" ELSE "loop"
    /\ UNCHANGED <<text, chunk_size, chunk_overlap, start, chunks>>
    /\ UNCHANGED <<pvars, uvars>>

\* One iteration of `while start < len(text)`.
ChunkStep ==
    /\ cpc = "loop"
    /\ start < Len(text)
    /\ LET end == ChunkEnd(text, start, self_chunk_size)
       IN /\ chunks' = Append(chunks,
                 [content |-> strip(Slice(text, start, end)),
                  chunk_index |-> Len(chunks),
                  start_char |-> start,
                  end_char |-> end])
          /\ start' = NextStart(start, end, self_chunk_size, self_chunk_overlap)
    /\ UNCHANGED <<text, chunk_size, chunk_overlap, cpc>>
    /\ UNCHANGED <<pvars, uvars>>

\* The loop condition fails: chunk_text returns `chunks`.
ChunkReturn ==
    /\ cpc = "loop"
    /\ start >= Len(text)
    /\ cpc' = "done"
    /\ UNCHANGED <<text, chunk_size, chunk_overlap, start, chunks>>
    /\ UNCHANGED <<pvars, uvars>>

ChunkNext == ChunkEnter \/ ChunkStep \/ ChunkReturn

\* chunk_text(text, metadata) as one call, for a metadata that holds `page`:
\* the loop from `start` with the chunks made so far.
RECURSIVE chunk_loop(_, _, _, _)
chunk_loop(t, page, s, acc) ==
    IF s >= Len(t) THEN acc
    ELSE LET end == ChunkEnd(t, s, self_chunk_size)
         IN chunk_loop(t, page,
                NextStart(s, end, self_chunk_size, self_chunk_overlap),
                Append(acc, [content |-> strip(Slice(t, s, end)),
                             metadata |-> [page |-> page, chunk_index |-> Len(acc),
                                           start_char |-> s, end_char |-> end],
                             chunk_index |-> Len(acc)]))
chunk_text(t, page) == IF IsBlank(t) THEN <<>> ELSE chunk_loop(t, page, 0, <<>>)

\* Bound on the number of pages of one call.
MaxPages == 3

\* The page texts tried: empty, blank, one chunk, several chunks.
PageSamples == { <<>>, <<" ">>, <<"a">>, <<"a", " ", "a">>, <<"a", ".", " ", "a">> }

\* The page_texts arguments: pages numbered from 1.
PageLists ==
    UNION {{[i \in 1..n |-> [page |-> i, text |-> f[i]]] : f \in [1..n -> PageSamples]} :
           n \in 0..MaxPages}

\* "Reassign global chunk indices": the page's chunks numbered from `base`,
\* in the chunk and in its metadata.  `origin` is not a key of the chunk: it
\* records the position in page_texts of the page the chunk was made from.
Renumber_chunkOnly(page_chunks, base, origin) ==
    [k \in 1..Len(page_chunks) |->
        [content |-> page_chunks[k].content,
         metadata |-> page_chunks[k].metadata,
         chunk_index |-> base + k - 1,
         origin |-> origin]]
Renumber(page_chunks, base, origin) ==
    [k \in 1..Len(page_chunks) |->
        [content |-> page_chunks[k].content,
         metadata |-> [page_chunks[k].metadata EXCEPT !.chunk_index = base + k - 1],
         chunk_index |-> base + k - 1,
         origin |-> origin]]

\* One iteration of `for page_info in page_texts`: a page whose text strips to
\* nothing is skipped, any other is chunked, renumbered and appended.
PageStep ==
    /\ call = [op |-> "chunk_text_by_pages", done |-> FALSE]
    /\ page_pos < Len(page_texts)
    /\ LET page_info == page_texts[page_pos + 1]
           page_chunks == Renumber(chunk_text(page_info.text, page_info.page),
                                   global_chunk_index, page_pos + 1)
       IN IF strip(page_info.text) = <<>>
          THEN UNCHANGED <<all_chunks, global_chunk_index>>
          ELSE /\ all_chunks' = all_chunks \o page_chunks
               /\ global_chunk_index' = global_chunk_index + Len(page_chunks)
    /\ page_pos' = page_pos + 1
    /\ UNCHANGED <<page_texts, call>>
    /\ UNCHANGED <<cvars, pvars>>

\* The for loop is exhausted: chunk_text_by_pages returns all_chunks.
PagesReturn ==
    /\ call = [op |-> "chunk_text_by_pages", done |-> FALSE]
    /\ page_pos = Len(page_texts)
    /\ call' = [call EXCEPT !.done = TRUE]
    /\ UNCHANGED <<page_texts, page_pos, all_chunks, global_chunk_index>>
    /\ UNCHANGED <<cvars, pvars>>

PagesNext == PageStep \/ PagesReturn

-----------------------------------------------------------------------------
(* Requests, users and the stored chunks *)

Procs == {"p1", "p2"}
Users == {1, 2, 3}

\* A DocumentChunk row joined with its Document (document_id, user_id).
Row(doc, idx, uid, words) ==
    [document_id |-> doc, chunk_index |-> idx, user_id |-> uid, content |-> words]

\* db.query(DocumentChunk).join(Document).filter(Document.user_id == user_id).all()
\* User 1 owns a two-chunk document, user 2 a one-chunk document, user 3 nothing.
UserChunks(u) ==
    CASE u = 1 -> << Row(1, 0, 1, <<"Paris", "capital">>), Row(1, 1, 1, <<"population">>) >>
      [] u = 2 -> << Row(2, 0, 2, <<"Berlin", "capital">>) >>
      [] OTHER -> << >>

\* A failure of a collaborator: the exception's class and str(e).
Excs == { [type |-> "RuntimeError", msg |-> "connection refused"],
          [type |-> "Exception", msg |-> ""] }

\* A metadata dict; `kind` is "MetaData" for the SQLAlchemy Base.metadata object
\* that `chunk.metadata` evaluates to (the column is named chunk_metadata).
Meta(kind, doc, uid, idx) ==
    [kind |-> kind, document_id |-> doc, user_id |-> uid, chunk_index |-> idx]

\* A result dict.  Absent keys are None.  `owner` is not a key of the dict:
\* it records the user whose stored chunk the result was made from.
Doc(id, content, metadata, score, distance, source, chunk_index, owner) ==
    [id |-> id, content |-> content, metadata |-> metadata, score |-> score,
     distance |-> distance, source |-> source, chunk_index |-> chunk_index,
     rrf_score |-> None, sources |-> None, rerank_score |-> None, owner |-> owner]

-----------------------------------------------------------------------------
(* BM25Retriever *)

\* settings.BM25_TOP_K, settings.VECTOR_TOP_K, settings.RERANK_TOP_K
BM25_TOP_K == 10
VECTOR_TOP_K == 10
RERANK_TOP_K == 3

\* BM25Retriever.__init__
EmptyIndex == [corpus |-> <<>>, tokenized_corpus |-> <<>>, bm25 |-> None]

\* str.lower() on a word of the stored contents
LowerWord(w) ==
    CASE w = "Paris" -> "paris" [] w = "Berlin" -> "berlin" [] OTHER -> w

\* BM25Retriever._tokenize on a content already split into words
tokenize(words) == [i \in 1..Len(words) |-> LowerWord(words[i])]

\* The chunk dict build_user_index formats from a row (no "id" key).
FormatChunk(row) ==
    [content |-> Some(row.content),
     metadata |-> Meta("MetaData", None, None, None),
     chunk_index |-> row.chunk_index,
     id |-> None,
     owner |-> row.user_id]

\* build_index, had an empty list cleared the index
build_index_reset(idx, chs) ==
    IF chs = <<>> THEN EmptyIndex
    ELSE IF \E i \in 1..Len(chs) : chs[i].content = None
         THEN [idx EXCEPT !.corpus = chs]
         ELSE [corpus |-> chs,
               tokenized_corpus |-> [i \in 1..Len(chs) |-> tokenize(chs[i].content[1])],
               bm25 |-> Some([i \in 1..Len(chs) |-> tokenize(chs[i].content[1])])]

\* BM25Retriever.build_index: the index after the call.  An empty list returns
\* at once; a chunk without "content" raises after self.corpus was assigned.
build_index(idx, chs) ==
    IF chs = <<>> THEN idx
    ELSE IF \E i \in 1..Len(chs) : chs[i].content = None
         THEN [idx EXCEPT !.corpus = chs]
         ELSE [corpus |-> chs,
               tokenized_corpus |-> [i \in 1..Len(chs) |-> tokenize(chs[i].content[1])],
               bm25 |-> Some([i \in 1..Len(chs) |-> tokenize(chs[i].content[1])])]

\* build_index raises ValueError
build_index_raises(chs) == \E i \in 1..Len(chs) : chs[i].content = None

\* The score values BM25Okapi.get_scores may give a chunk.
Scores == {-1, 0, 1, 2}

\* sorted(range(len(scores)), key=scores, reverse=True): a stable descending
\* sort of the 1-based positions.
RankPositions_unsorted(scores, todo) == todo
RECURSIVE RankPositions(_, _)
RankPositions(scores, todo) ==
    IF todo = <<>> THEN <<>>
    ELSE LET rest == RankPositions(scores, SubSeq(todo, 1, Len(todo) - 1))
             x == todo[Len(todo)]
             before == {k \in 1..Len(rest) : scores[rest[k]] < scores[x]}
             at == IF before = {} THEN Len(rest) + 1
                   ELSE CHOOSE k \in before : \A m \in before : k <= m
         IN SubSeq(rest, 1, at - 1) \o <<x>> \o SubSeq(rest, at, Len(rest))

\* [x for x in seq if keep(x)] for the positive-score filter
RECURSIVE PositiveOnly_nonneg(_, _)
PositiveOnly_nonneg(scores, ranked) ==
    IF ranked = <<>> THEN <<>>
    ELSE (IF scores[Head(ranked)] < 0 THEN <<>> ELSE <<Head(ranked)>>)
         \o PositiveOnly_nonneg(scores, Tail(ranked))
RECURSIVE PositiveOnly(_, _)
PositiveOnly(scores, ranked) ==
    IF ranked = <<>> THEN <<>>
    ELSE (IF scores[Head(ranked)] <= 0 THEN <<>> ELSE <<Head(ranked)>>)
         \o PositiveOnly(scores, Tail(ranked))

\* BM25Retriever.search given the scores get_scores returned (one per chunk
\* the scorer was built from).  After a build that raised, self.corpus is
\* not the scorer's corpus any more: self.corpus[idx] out of range or a chunk
\* without "content" raises inside the try, and search returns [].
bm25_search(idx, scores, top_k) ==
    IF idx.bm25 = None \/ idx.corpus = <<>> THEN <<>>
    ELSE LET ranked == Slice(RankPositions(scores, [i \in 1..Len(scores) |-> i]), 0, top_k)
             kept == PositiveOnly(scores, ranked)
         IN IF \E k \in 1..Len(kept) :
                  kept[k] > Len(idx.corpus) \/ idx.corpus[kept[k]].content = None
            THEN <<>>
            ELSE
            [k \in 1..Len(kept) |->
                LET pos == kept[k]
                    chunk == idx.corpus[pos]
                IN Doc(IF chunk.id # None THEN chunk.id[1]
                                           ELSE "bm25_" \o ToString(pos - 1),
                       chunk.content[1], chunk.metadata, Some(scores[pos]), None,
                       "bm25", Some(chunk.chunk_index), chunk.owner)]

-----------------------------------------------------------------------------
(* VectorRetriever *)

\* The id add_documents stored the chunk under.
VectorId(row) ==
    "doc_" \o ToString(row.document_id) \o "_chunk_" \o ToString(row.chunk_index)
    \o "_user_" \o ToString(row.user_id)

\* The k-th hit of a vector search: a stored chunk of the user at distance k.
VectorDoc(row, k) ==
    Doc(VectorId(row), row.content,
        Meta("dict", Some(row.document_id), Some(row.user_id), Some(row.chunk_index)),
        None, Some(k), "vector", None, row.user_id)

\* The rankings collection.query(where={"user_id": u}) can return: every
\* ordering of every subset of the user's stored chunks.
\* at most top_k of them (n_results).
Rankings(rows, top_k) ==
    LET n == Len(rows)
    IN UNION {{f \in [1..k -> 1..n] : \A i, j \in 1..k : i # j => f[i] # f[j]} :
              k \in 0..Min(n, top_k)}

\* VectorRetriever.search(query, user_id, top_k) when it returns
VectorResults(u, top_k) ==
    {[k \in 1..Len(f) |-> VectorDoc(UserChunks(u)[f[k]], k - 1)] :
        f \in Rankings(UserChunks(u), top_k)}

-----------------------------------------------------------------------------
(* HybridRetriever *)

\* self.rrf_k
rrf_k == 60

\* add_results: `fused` is the dict as the sequence of its entries in insertion
\* order; an entry's rrf_score is the exact fraction num/den.
RECURSIVE add_results(_, _, _, _)
add_results(fused, results, source, rank) ==
    IF results = <<>> THEN fused
    ELSE LET result == Head(results)
             chunk_id == IF result.id # "" THEN result.id
                         ELSE source \o "_" \o ToString(rank)
             fused1 == IF \E k \in 1..Len(fused) : fused[k].key = chunk_id
                       THEN fused
                       ELSE Append(fused, [key |-> chunk_id, result |-> result,
                                           num |-> 0, den |-> 1, sources |-> {}])
             k == CHOOSE j \in 1..Len(fused1) : fused1[j].key = chunk_id
             e == fused1[k]
             fused2 == [fused1 EXCEPT ![k] =
                          [e EXCEPT !.num = e.num * (rrf_k + rank + 1) + e.den,
                                    !.den = e.den * (rrf_k + rank + 1),
                                    !.sources = e.sources \cup {source}]]
         IN add_results(fused2, Tail(results), source, rank + 1)

\* a.rrf_score < b.rrf_score
RrfLess(a, b) == a.num * b.den < b.num * a.den

\* sorted(fused.values(), key=rrf_score, reverse=True): stable, descending
RECURSIVE SortFused(_)
SortFused(entries) ==
    IF entries = <<>> THEN <<>>
    ELSE LET rest == SortFused(SubSeq(entries, 1, Len(entries) - 1))
             x == entries[Len(entries)]
             before == {k \in 1..Len(rest) : RrfLess(rest[k], x)}
             at == IF before = {} THEN Len(rest) + 1
                   ELSE CHOOSE k \in before : \A m \in before : k <= m
         IN SubSeq(rest, 1, at - 1) \o <<x>> \o SubSeq(rest, at, Len(rest))

\* round(num/den, 6), in millionths
Round6(num, den) == (2000000 * num + den) \div (2 * den)

\* sorted(item["sources"])
SortedSources(srcs) ==
    IF srcs = {"bm25", "vector"} THEN <<"bm25", "vector">>
    ELSE IF srcs = {"bm25"} THEN <<"bm25">> ELSE <<"vector">>

\* HybridRetriever._reciprocal_rank_fusion
reciprocal_rank_fusion(bm25_results, vector_results, top_k) ==
    LET fused == add_results(add_results(<<>>, bm25_results, "bm25", 0),
                             vector_results, "vector", 0)
        ranked == Slice(SortFused(fused), 0, top_k)
    IN [i \in 1..Len(ranked) |->
           [ranked[i].result EXCEPT
               !.rrf_score = Some(Round6(ranked[i].num, ranked[i].den)),
               !.sources = Some(SortedSources(ranked[i].sources)),
               !.source = "hybrid"]]

-----------------------------------------------------------------------------
(* Reranker *)

\* The relevance scores CrossEncoder.predict may give a pair.
RerankScores == {0, 1}

\* sorted(documents, key=rerank_score, reverse=True): stable, descending
RECURSIVE SortReranked(_)
SortReranked(docs) ==
    IF docs = <<>> THEN <<>>
    ELSE LET rest == SortReranked(SubSeq(docs, 1, Len(docs) - 1))
             x == docs[Len(docs)]
             before == {k \in 1..Len(rest) : rest[k].rerank_score[1] < x.rerank_score[1]}
             at == IF before = {} THEN Len(rest) + 1
                   ELSE CHOOSE k \in before : \A m \in before : k <= m
         IN SubSeq(rest, 1, at - 1) \o <<x>> \o SubSeq(rest, at, Len(rest))

\* The fallback of rerank without the cut to top_k.
rerank_uncut(model, documents, top_k, predicted) ==
    IF model /\ documents # <<>> /\ predicted = None THEN documents
    ELSE IF ~model THEN (IF top_k # 0 THEN Slice(documents, 0, top_k) ELSE documents)
    ELSE IF documents = <<>> THEN <<>>
    ELSE Slice(SortReranked([i \in 1..Len(documents) |->
                 [documents[i] EXCEPT !.rerank_score = Some(predicted[1][i])]]),
               0, IF top_k # 0 THEN top_k ELSE RERANK_TOP_K)

\* Reranker.rerank(query, documents, top_k).  `model` is self.model being set;
\* `predicted` is None when predict raises, else Some(the scores it returned).
rerank(model, documents, top_k, predicted) ==
    IF ~model THEN (IF top_k # 0 THEN Slice(documents, 0, top_k) ELSE documents)
    ELSE IF documents = <<>> THEN <<>>
    ELSE LET k == IF top_k # 0 THEN top_k ELSE RERANK_TOP_K
         IN IF predicted = None THEN Slice(documents, 0, k)
            ELSE Slice(SortReranked([i \in 1..Len(documents) |->
                         [documents[i] EXCEPT !.rerank_score = Some(predicted[1][i])]]),
                       0, k)

\* The outcomes of self.model.predict(pairs) for n pairs.
Predictions(n) == {None} \cup {Some(f) : f \in [1..n -> RerankScores]}

-----------------------------------------------------------------------------
(* Queries and the tools *)

UpperLetters == <<"A","B","C","D","E","F","G","H","I","J","K","L","M",
                  "N","O","P","Q","R","S","T","U","V","W","X","Y","Z">>
LowerLetters == <<"a","b","c","d","e","f","g","h","i","j","k","l","m",
                  "n","o","p","q","r","s","t","u","v","w","x","y","z">>

\* str.lower()
lower(s) ==
    [i \in 1..Len(s) |->
        IF \E k \in 1..26 : UpperLetters[k] = s[i]
        THEN LowerLetters[CHOOSE k \in 1..26 : UpperLetters[k] = s[i]]
        ELSE s[i]]

\* The queries submitted: with and without trigger phrases, with the phrase
\* inside another word, in upper case, with zero, one and two numbers.
Q_capital == <<"c", "a", "p", "i", "t", "a", "l">>
Q_update == <<"u", "p", "d", "a", "t", "e">>
Q_what_day == <<"w", "h", "a", "t", " ", "d", "a", "y">>
Q_what_date == <<"w", "h", "a", "t", " ", "d", "a", "t", "e">>
Q_Today == <<"T", "o", "d", "a", "y">>
Q_summary == <<"s", "u", "m", "m", "a", "r", "y">>
Q_compute_7 == <<"c", "o", "m", "p", "u", "t", "e", " ", "7">>
Q_calculate_2_13 == <<"c", "a", "l", "c", "u", "l", "a", "t", "e", " ", "2", " ", "1", "3">>
Q_calculate_01_2 == <<"c", "a", "l", "c", "u", "l", "a", "t", "e", " ", "0", "1", " ", "2">>

Queries == {Q_capital, Q_update, Q_what_day, Q_what_date, Q_Today, Q_summary,
            Q_compute_7, Q_calculate_2_13, Q_calculate_01_2}

\* tool_keywords of tool_analysis_node, in the order of the dict
DateKeywords == << <<"t", "o", "d", "a", "y">>, <<"c", "u", "r", "r", "e", "n", "t", " ", "d", "a", "t", "e">>, <<"w", "h", "a", "t", " ", "d", "a", "t", "e">>, <<"w", "h", "a", "t", " ", "d", "a", "y">> >>
CalculateKeywords == << <<"c", "a", "l", "c", "u", "l", "a", "t", "e">>,
                       <<"c", "o", "m", "p", "u", "t", "e">>,
                       <<"m", "a", "t", "h">>,
                       <<"s", "u", "m">>,
                       <<"m", "u", "l", "t", "i", "p", "l", "y">>,
                       <<"d", "i", "v", "i", "d", "e">> >>

\* any(keyword in query for keyword in keywords)
AnyKeyword(query, keywords) == \E i \in 1..Len(keywords) : Contains(query, keywords[i])

\* The tool_needed that tool_analysis_node computes for state["query"].
ToolNeeded_substring(query) ==
    Contains(lower(query), <<"d","a","t","e">>) \/ AnyKeyword(lower(query), CalculateKeywords)
ToolNeeded(query) ==
    AnyKeyword(lower(query), DateKeywords) \/ AnyKeyword(lower(query), CalculateKeywords)

IsDigit(c) == c \in {"0", "1", "2", "3", "4", "5", "6", "7", "8", "9"}

\* re.findall(r"\d+", s): the maximal runs of digits, left to right
RECURSIVE findall_digits(_, _)
findall_digits(s, run) ==
    IF s = <<>> THEN (IF run = <<>> THEN <<>> ELSE <<run>>)
    ELSE IF IsDigit(Head(s)) THEN findall_digits(Tail(s), Append(run, Head(s)))
    ELSE (IF run = <<>> THEN <<>> ELSE <<run>>) \o findall_digits(Tail(s), <<>>)

\* int(digits)
RECURSIVE IntOf(_)
IntOf(digits) ==
    IF digits = <<>> THEN 0
    ELSE 10 * IntOf(SubSeq(digits, 1, Len(digits) - 1))
         + (CHOOSE d \in 0..9 : ToString(d) = digits[Len(digits)])

\* A decimal integer literal ast.parse accepts: no leading zero, or all zeros.
ValidLiteral(digits) ==
    digits # <<>> /\ (digits[1] # "0" \/ \A i \in 1..Len(digits) : digits[i] = "0")

\* ---- ToolRegistry._safe_eval: ast.parse(expression, mode="eval") ----
\* Only the characters the pre-filter of calculate lets through reach the
\* parser, so the tokens are numbers, + - * / % ** // ( ) and dots.

\* The number of digits of s from position i (1-based) on.
RECURSIVE DigitRun(_, _)
DigitRun(s, i) == IF i <= Len(s) /\ IsDigit(s[i]) THEN 1 + DigitRun(s, i + 1) ELSE 0

\* A number: an int, a float or a complex.  An int, and a float that binary
\* floating point represents exactly (a dyadic rational of few digits), is the
\* rational num/den (den > 0), `negzero` marking the float -0.0.  Any other
\* float is inexact: num/den is then the real number it approximates, and a
\* complex carries no value.
IsDyadic(num, den) == \E k \in 0..10 : (num * 2 ^ k) % den = 0
Num(kind, num, den) ==
    [kind |-> kind, num |-> num, den |-> den, negzero |-> FALSE,
     exact |-> kind = "int" \/ (kind = "float" /\ IsDyadic(num, den))]
Complex == [kind |-> "complex", num |-> 1, den |-> 1, negzero |-> FALSE, exact |-> FALSE]
IsZero(a) == a.kind # "complex" /\ a.num = 0
Negative(a) == a.num < 0 \/ (a.num = 0 /\ a.negzero)

\* The numeric literal at position i: digits, then optionally a dot and
\* digits (a float; leading zeros allowed), else a decimal integer, which must
\* not have leading zeros.  `len` is the number of characters taken.
NumberToken(s, i) ==
    LET a == DigitRun(s, i)
        dot == i + a <= Len(s) /\ s[i + a] = "."
        b == IF dot THEN DigitRun(s, i + a + 1) ELSE 0
        int == SubSeq(s, i, i + a - 1)
    IN IF dot
       THEN [t |-> "num", len |-> a + 1 + b,
             v |-> Num("float", IntOf(int \o SubSeq(s, i + a + 1, i + a + b)), 10 ^ b)]
       ELSE IF ValidLiteral(int)
       THEN [t |-> "num", len |-> a, v |-> Num("int", IntOf(int), 1)]
       ELSE [t |-> "leading zeros", len |-> a, v |-> Num("int", 0, 1)]

\* F(v), with v computed once however often F uses it.
Let(v, F(_)) == CHOOSE y \in { F(x) : x \in {v} } : TRUE

\* The tokens of s from position i on.  Spaces separate tokens; a dot that
\* starts neither a number nor "..." is a token no expression here can use.
RECURSIVE lex(_, _)
lex(s, i) ==
    LET tok(t) == [t |-> t, len |-> Len(t), v |-> Num("int", 0, 1)]
        two(c) == i < Len(s) /\ s[i] = c /\ s[i + 1] = c
        then(token) == Let(i + token.len, LAMBDA j : <<token>> \o lex(s, j))
    IN IF i > Len(s) THEN <<>>
       ELSE IF s[i] = " " THEN lex(s, i + 1)
       ELSE IF IsDigit(s[i]) \/ (s[i] = "." /\ i < Len(s) /\ IsDigit(s[i + 1]))
       THEN Let(NumberToken(s, i), then)
       ELSE IF s[i] = "."
       THEN IF i + 2 <= Len(s) /\ s[i + 1] = "." /\ s[i + 2] = "."
            THEN <<tok("...")>> \o lex(s, i + 3)
            ELSE <<tok("dot")>> \o lex(s, i + 1)
       ELSE IF two("*") THEN <<tok("**")>> \o lex(s, i + 2)
       ELSE IF two("/") THEN <<tok("//")>> \o lex(s, i + 2)
       ELSE <<tok(s[i])>> \o lex(s, i + 1)

\* The outcome of a parsing function: a node and the position of the next
\* token, or a SyntaxError.
Parsed(node, next) == [ok |-> TRUE, node |-> node, next |-> next]
NoParse == [ok |-> FALSE, node |-> [n |-> "none"], next |-> 0]

\* Python's expression grammar over these tokens:
\*   sum: term (('+'|'-') term)*       term: factor (('*'|'/'|'//'|'%') factor)*
\*   factor: ('+'|'-') factor | power   power: primary ['**' factor]
\*   primary: atom ('(' [sum] ')')*     atom: NUMBER | '...' | '(' ')' | '(' sum ')'
RECURSIVE parse_sum(_, _), sum_rest(_, _, _), parse_term(_, _), term_rest(_, _, _)
RECURSIVE parse_factor(_, _), parse_power(_, _), call_rest(_, _, _), parse_atom(_, _)

Is(toks, i, ts) == i <= Len(toks) /\ toks[i].t \in ts

\* The closing parenthesis after the expression e
Close(toks, e, node) ==
    IF e.ok /\ Is(toks, e.next, {")"}) THEN Parsed(node, e.next + 1) ELSE NoParse

parse_atom(toks, i) ==
    IF Is(toks, i, {"num"}) THEN Parsed([n |-> "Constant", v |-> toks[i].v], i + 1)
    ELSE IF Is(toks, i, {"..."}) THEN Parsed([n |-> "Ellipsis"], i + 1)
    ELSE IF Is(toks, i, {"("})
    THEN IF Is(toks, i + 1, {")"}) THEN Parsed([n |-> "Tuple"], i + 2)
         ELSE Let(parse_sum(toks, i + 1), LAMBDA e : Close(toks, e, e.node))
    ELSE NoParse

call_rest(toks, func, i) ==
    IF ~Is(toks, i, {"("}) THEN Parsed(func, i)
    ELSE IF Is(toks, i + 1, {")"}) THEN call_rest(toks, [n |-> "Call"], i + 2)
    ELSE Let(parse_sum(toks, i + 1),
             LAMBDA e : Let(Close(toks, e, [n |-> "Call"]),
                            LAMBDA c : IF c.ok THEN call_rest(toks, c.node, c.next)
                                       ELSE NoParse))

\* left op right, once the right operand r is parsed
BinOp(op, left, r) ==
    IF r.ok THEN Parsed([n |-> "BinOp", op |-> op, left |-> left, right |-> r.node], r.next)
    ELSE NoParse

parse_power(toks, i) ==
    Let(parse_atom(toks, i),
        LAMBDA a :
          IF ~a.ok THEN NoParse
          ELSE Let(call_rest(toks, a.node, a.next),
                   LAMBDA p :
                     IF p.ok /\ Is(toks, p.next, {"**"})
                     THEN Let(parse_factor(toks, p.next + 1),
                              LAMBDA f : BinOp("**", p.node, f))
                     ELSE p))

parse_factor(toks, i) ==
    IF Is(toks, i, {"+", "-"})
    THEN Let(parse_factor(toks, i + 1),
             LAMBDA f : IF f.ok
                        THEN Parsed([n |-> "UnaryOp", op |-> toks[i].t,
                                     operand |-> f.node], f.next)
                        ELSE NoParse)
    ELSE parse_power(toks, i)

term_rest(toks, left, i) ==
    IF ~Is(toks, i, {"*", "/", "//", "%"}) THEN Parsed(left, i)
    ELSE Let(parse_factor(toks, i + 1),
             LAMBDA r : Let(BinOp(toks[i].t, left, r),
                            LAMBDA b : IF b.ok THEN term_rest(toks, b.node, b.next)
                                       ELSE NoParse))

parse_term(toks, i) ==
    Let(parse_factor(toks, i),
        LAMBDA l : IF l.ok THEN term_rest(toks, l.node, l.next) ELSE NoParse)

sum_rest(toks, left, i) ==
    IF ~Is(toks, i, {"+", "-"}) THEN Parsed(left, i)
    ELSE Let(parse_term(toks, i + 1),
             LAMBDA r : Let(BinOp(toks[i].t, left, r),
                            LAMBDA b : IF b.ok THEN sum_rest(toks, b.node, b.next)
                                       ELSE NoParse))

parse_sum(toks, i) ==
    Let(parse_term(toks, i),
        LAMBDA l : IF l.ok THEN sum_rest(toks, l.node, l.next) ELSE NoParse)

\* ast.parse(expression, mode="eval"): the tree, or a SyntaxError (leading
\* whitespace is an IndentationError, a subclass of SyntaxError).
ast_parse(expression) ==
    IF expression = <<>> \/ expression[1] = " " THEN NoParse
    ELSE Let(lex(expression, 1),
             LAMBDA toks :
               Let(parse_sum(toks, 1),
                   LAMBDA e : IF e.ok /\ e.next = Len(toks) + 1 THEN e ELSE NoParse))

\* str(e) of the SyntaxError.  The parser's other diagnostics ("'(' was never
\* closed", "unmatched ')'") are all written "invalid syntax" here.
SyntaxMessage(expression) ==
    IF expression # <<>> /\ expression[1] = " "
    THEN "unexpected indent (<unknown>, line 1)"
    ELSE IF \E k \in 1..Len(lex(expression, 1)) : lex(expression, 1)[k].t = "leading zeros"
    THEN "leading zeros in decimal integer literals are not permitted; "
         \o "use an 0o prefix for octal integers (<unknown>, line 1)"
    ELSE "invalid syntax (<unknown>, line 1)"

\* ---- ToolRegistry._safe_eval: _eval ----

NoExc == [type |-> "", msg |-> ""]

Value(v) == [ok |-> TRUE, v |-> v, exc |-> NoExc]
Throw(type, msg) == [ok |-> FALSE, v |-> Num("int", 0, 1), exc |-> [type |-> type, msg |-> msg]]

\* b ** e for an int e >= 0 (0 ** 0 is 1)
RECURSIVE Power(_, _)
Power(b, e) == IF e = 0 THEN 1 ELSE b * Power(b, e - 1)

\* The operator functions of the `operators` table applied to numbers
\* (op.add, op.sub, op.mul, op.truediv, op.mod, op.pow).  int op int is an int
\* except for / and for ** with a negative exponent; anything with a float is
\* a float; a negative number to a fractional power is a complex, and so is
\* anything computed from a complex, except that % rejects it.  A result is
\* exact when its operands are and it is representable.
Apply(op, a, b) ==
    LET kind == IF a.kind = "int" /\ b.kind = "int" THEN "int" ELSE "float"
        Of(k, n, d, negzero) ==
            Value([Num(k, n, d) EXCEPT
                     !.negzero = k = "float" /\ n = 0 /\ negzero,
                     !.exact = a.exact /\ b.exact /\ @])
        \* a/b = p/q with q > 0
        p == IF a.den * b.num < 0 THEN -(a.num * b.den) ELSE a.num * b.den
        q == IF a.den * b.num < 0 THEN -(a.den * b.num) ELSE a.den * b.num
        e == b.num \div b.den
        Odd(n) == n % 2 = 1
        types == "'" \o a.kind \o "' and '" \o b.kind \o "'"
    IN IF op = "%" /\ "complex" \in {a.kind, b.kind}
       THEN Throw("TypeError", "unsupported operand type(s) for %: " \o types)
       ELSE IF op \in {"/", "%"} /\ IsZero(b)
       THEN Throw("ZeroDivisionError",
                  CASE a.kind = "complex" -> "complex division by zero"
                    [] kind = "int" /\ op = "/" -> "division by zero"
                    [] kind = "int" /\ op = "%" -> "integer modulo by zero"
                    [] kind = "float" /\ op = "/" -> "float division by zero"
                    [] OTHER -> "float modulo")
       ELSE IF op = "**" /\ IsZero(a) /\ b.kind # "complex" /\ b.num < 0
       THEN Throw("ZeroDivisionError", "0.0 cannot be raised to a negative power")
       ELSE IF "complex" \in {a.kind, b.kind} THEN Value(Complex)
       ELSE CASE op = "+" -> Of(kind, a.num * b.den + b.num * a.den, a.den * b.den,
                                a.negzero /\ b.negzero)
              [] op = "-" -> Of(kind, a.num * b.den - b.num * a.den, a.den * b.den,
                                a.negzero /\ IsZero(b) /\ ~b.negzero)
              [] op = "*" -> Of(kind, a.num * b.num, a.den * b.den,
                                Negative(a) # Negative(b))
              [] op = "/" -> Of("float", p, q, Negative(a) # Negative(b))
              [] op = "%" -> Of(kind, a.num * b.den - b.num * a.den * (p \div q),
                                a.den * b.den, Negative(b))
              [] op = "**" ->
                   IF b.num % b.den # 0
                   THEN IF a.num = 0 THEN Of("float", 0, 1, FALSE)
                        ELSE IF a.num = a.den THEN Of("float", 1, 1, FALSE)
                        ELSE IF a.num < 0 THEN Value(Complex)
                        ELSE Value([Num("float", a.num, a.den) EXCEPT !.exact = FALSE])
                   ELSE IF e >= 0 THEN Of(kind, Power(a.num, e), Power(a.den, e), a.negzero /\ Odd(e))
                   ELSE IF (a.num < 0) /\ Odd(-e)
                   THEN Of("float", -Power(a.den, -e), Power(-a.num, -e), FALSE)
                   ELSE Of("float", Power(a.den, -e),
                           Power(IF a.num < 0 THEN -a.num ELSE a.num, -e), FALSE)

\* op.pos and op.neg
ApplyUnary(op, a) ==
    IF op = "+" \/ a.kind = "complex" THEN a
    ELSE [a EXCEPT !.num = -a.num,
                   !.negzero = a.kind = "float" /\ a.num = 0 /\ ~a.negzero]

\* _eval(node).  operators[type(node.op)] is looked up before the operands
\* are evaluated: // is not in the table and raises KeyError.
RECURSIVE _eval(_)
_eval(node) ==
    CASE node.n = "Constant" -> Value(node.v)
      [] node.n = "Ellipsis" ->
           Throw("TypeError", "Unsupported constant type: <class 'ellipsis'>")
      [] node.n = "BinOp" ->
           IF node.op = "//" THEN Throw("KeyError", "<class 'ast.FloorDiv'>")
           ELSE Let(_eval(node.left),
                    LAMBDA l :
                      IF ~l.ok THEN l
                      ELSE Let(_eval(node.right),
                               LAMBDA r : IF ~r.ok THEN r
                                          ELSE Apply(node.op, l.v, r.v)))
      [] node.n = "UnaryOp" ->
           Let(_eval(node.operand),
               LAMBDA o : IF ~o.ok THEN o ELSE Value(ApplyUnary(node.op, o.v)))
      [] OTHER ->
           Throw("TypeError", "Unsupported AST node: <class 'ast." \o node.n \o "'>")

\* _safe_eval: SyntaxError, KeyError, TypeError and ZeroDivisionError are
\* raised again as ValueError; any other exception passes through.
_safe_eval(expression) ==
    Let(ast_parse(expression),
        LAMBDA tree :
          IF ~tree.ok
          THEN Throw("ValueError", "Invalid expression: " \o SyntaxMessage(expression))
          ELSE Let(_eval(tree.node),
                   LAMBDA r :
                     IF ~r.ok /\ r.exc.type \in {"SyntaxError", "KeyError", "TypeError",
                                                 "ZeroDivisionError"}
                     THEN Throw("ValueError", "Invalid expression: " \o r.exc.msg)
                     ELSE r))

\* str(result): an int in decimal; an exact float with its fractional digits
\* when it has at most three of them.  The digits of any other number are
\* not computed: the string names the kind and the approximate value.
str(v) ==
    LET n == IF v.num < 0 THEN -v.num ELSE v.num
        scaled == (n * 1000) \div v.den
        frac == scaled % 1000
        digits == IF frac % 100 = 0 THEN ToString(frac \div 100)
                  ELSE IF frac % 10 = 0
                  THEN ToString(frac \div 100) \o ToString((frac \div 10) % 10)
                  ELSE ToString(frac \div 100) \o ToString((frac \div 10) % 10)
                       \o ToString(frac % 10)
    IN IF v.kind = "int" THEN ToString(v.num \div v.den)
       ELSE IF v.exact /\ (n * 1000) % v.den = 0
       THEN (IF Negative(v) THEN "-" ELSE "") \o ToString(scaled \div 1000) \o "." \o digits
       ELSE "<" \o v.kind \o " " \o ToString(v.num) \o "/" \o ToString(v.den) \o ">"

\* allowed_chars of calculate
allowed_chars ==
    {"0", "1", "2", "3", "4", "5", "6", "7", "8", "9",
     "+", "-", "*", "/", "(", ")", "%", ".", " "}

\* ToolRegistry.calculate(expression): the string it returns (`text`), with
\* whether that string is an error message and whether the expression was
\* handed to the parser.  Everything _safe_eval raises is caught.
Answer(r) ==
    IF r.ok THEN [text |-> str(r.v), error |-> FALSE, parsed |-> TRUE]
    ELSE [text |-> "Error: " \o r.exc.msg, error |-> TRUE, parsed |-> TRUE]
Evaluate(expression) == Let(_safe_eval(expression), Answer)
PreFilter(expression) ==
    IF \E k \in 1..Len(expression) : expression[k] \notin allowed_chars
    THEN [text |-> "Error: Invalid characters in expression", error |-> TRUE,
          parsed |-> FALSE]
    ELSE Evaluate(expression)
calculate_unfiltered(expression) ==
    Let(expression, Evaluate)
calculate(expression) ==
    Let(expression, PreFilter)

\* ToolRegistry.get_current_date: strftime("%Y-%m-%d %H:%M:S") at some instant
get_current_date == "2026-01-15 10:30:S"

\* ToolRegistry.tools: the dict as the sequence of its entries in insertion
\* order.  A function is named by its __name__.
Entry(name, func) == [name |-> name, func |-> func]
Names(tools) == { tools[k].name : k \in 1..Len(tools) }

\* ToolRegistry.register_tool(name, func): self.tools[name] = func
register_tool(tools, name, func) ==
    IF name \in Names(tools)
    THEN [k \in 1..Len(tools) |->
             IF tools[k].name = name THEN Entry(name, func) ELSE tools[k]]
    ELSE Append(tools, Entry(name, func))

\* ToolRegistry.get_tool(name): self.tools.get(name)
get_tool(tools, name) ==
    IF name \in Names(tools)
    THEN Some(tools[CHOOSE k \in 1..Len(tools) : tools[k].name = name].func)
    ELSE None

\* ToolRegistry.list_tools(): list(self.tools.keys())
list_tools(tools) == [k \in 1..Len(tools) |-> tools[k].name]

\* tool_registry after __init__ and _register_default_tools
registry ==
    register_tool(register_tool(<<>>, "get_current_date", "get_current_date"),
                  "calculate", "calculate")

\* A message is kept as the list of the pieces its f-string puts together
\* (the literal parts and each interpolated value), so that what a message
\* contains can be told; Join is the string itself.
RECURSIVE Join(_)
Join(parts) == IF parts = <<>> THEN "" ELSE Head(parts) \o Join(Tail(parts))

\* The outcome of calling a function: its value or the exception it raises.
Returned(v) == [ok |-> TRUE, value |-> v, exc |-> NoExc]
Raised(e) == [ok |-> FALSE, value |-> <<>>, exc |-> e]

\* tool(**tool_args) for the function `tool`.  tool_args maps keyword names to
\* values (<<>> is the empty dict).  A default tool called with keywords its
\* signature does not have raises the interpreter's TypeError, which names
\* the function; `behaviour` is what any other function does.
invoke(tool, tool_args, behaviour) ==
    LET qualname == <<"ToolRegistry.", tool, "()">>
        unexpected(keys) ==
            Raised([type |-> "TypeError",
                    msg |-> qualname \o <<" got an unexpected keyword argument '",
                                          CHOOSE k \in keys : TRUE, "'">>])
    IN CASE tool = "get_current_date" ->
              IF DOMAIN tool_args = {} THEN Returned(<<get_current_date>>)
              ELSE unexpected(DOMAIN tool_args)
         [] tool = "calculate" ->
              IF DOMAIN tool_args = {"expression"}
              THEN Returned(<<calculate(tool_args.expression).text>>)
              ELSE IF DOMAIN tool_args = {}
              THEN Raised([type |-> "TypeError",
                           msg |-> qualname \o <<" missing 1 required positional "
                                                 \o "argument: 'expression'">>])
              ELSE unexpected(DOMAIN tool_args \ {"expression"})
         [] OTHER -> behaviour

\* ToolExecutor.execute_tool(tool_name, args) on a registry holding `tools`:
\* the pieces of the string it returns.
execute_tool(tools, tool_name, tool_args, behaviour) ==
    LET tool == get_tool(tools, tool_name)
        outcome == invoke(tool[1], tool_args, behaviour)
    IN IF tool = None
       THEN <<"Error: Tool '", tool_name, "' not found">>
       ELSE IF outcome.ok THEN outcome.value
       ELSE <<"Error executing tool: ">> \o outcome.exc.msg

-----------------------------------------------------------------------------
(* The workflow state and its nodes (workflow/state.py, workflow/nodes.py) *)

\* create_initial_state
create_initial_state(query, user_id) ==
    [query |-> query, user_id |-> user_id, thread_id |-> None,
     bm25_results |-> None, vector_results |-> None, hybrid_results |-> None,
     reranked_results |-> None, context_documents |-> None, answer |-> None,
     tool_needed |-> None, tool_result |-> None,
     metadata |-> [steps |-> <<>>, documents_retrieved |-> None,
                   documents_reranked |-> None, context_documents_used |-> None],
     error |-> None]

\* Truth value of an Optional[str] and of an Optional[list]
TruthyStr(opt) == opt # None /\ Len(opt[1]) > 0
TruthyList(opt) == opt # None /\ Len(opt[1]) > 0

\* except (ValueError, RuntimeError) against except Exception
IsValueOrRuntimeError(e) == e.type \in {"ValueError", "RuntimeError"}

\* HybridRetriever.search: the keyword search, then the vector search (whose
\* outcome is `vec`), then the fusion.
hybrid_search(idx, scores, vec, top_k) ==
    IF vec.ok
    THEN Returned(reciprocal_rank_fusion(bm25_search(idx, scores, BM25_TOP_K),
                                         vec.value, top_k))
    ELSE Raised(vec.exc)

\* retrieval_node
retrieval_node(state, found) ==
    IF found.ok
    THEN [state EXCEPT !.hybrid_results = Some(found.value),
                       !.metadata.steps = Append(@, "retrieval"),
                       !.metadata.documents_retrieved = Some(Len(found.value))]
    ELSE IF IsValueOrRuntimeError(found.exc)
    THEN [state EXCEPT !.error = Some("Retrieval error: " \o found.exc.msg)]
    ELSE [state EXCEPT !.error = Some("Unexpected retrieval error: " \o found.exc.msg)]

\* reranking_node.  reranker.rerank cannot raise (it catches the failure of
\* predict itself), so the node's own except branch is never taken.  predict
\* writes rerank_score into the dicts of hybrid_results themselves.
reranking_node(state, model, predicted) ==
    LET hybrid_results == IF state.hybrid_results = None THEN <<>>
                          ELSE state.hybrid_results[1]
    IN IF hybrid_results = <<>>
       THEN [state EXCEPT !.reranked_results = Some(<<>>),
                          !.context_documents = Some(<<>>)]
       ELSE LET reranked == rerank(model, hybrid_results, 5, predicted)
            IN [state EXCEPT
                   !.hybrid_results =
                       IF model /\ predicted # None
                       THEN Some([i \in 1..Len(hybrid_results) |->
                               [hybrid_results[i] EXCEPT
                                   !.rerank_score = Some(predicted[1][i])]])
                       ELSE @,
                   !.reranked_results = Some(reranked),
                   !.context_documents = Some(reranked),
                   !.metadata.steps = Append(@, "reranking"),
                   !.metadata.documents_reranked = Some(Len(reranked))]

\* tool_analysis_node
tool_analysis_node(state) ==
    [state EXCEPT !.tool_needed = Some(ToolNeeded(state.query)),
                  !.metadata.steps = Append(@, "tool_analysis")]

\* The tool tool_execution_node invokes for the query: None when neither
\* branch of its if/elif invokes one.
ToolChosen(query) ==
    LET q == lower(query)
    IN IF Contains(q, <<"d","a","t","e">>) \/ Contains(q, <<"t","o","d","a","y">>)
       THEN Some("get_current_date")
       ELSE IF (Contains(q, <<"c","a","l","c","u","l","a","t","e">>)
                \/ Contains(q, <<"c","o","m","p","u","t","e">>))
               /\ Len(findall_digits(q, <<>>)) >= 2
       THEN Some("calculate")
       ELSE None

\* tool_execution_node on a tool_registry holding `tools`, whose registered
\* functions other than the default ones do `behaviour`.  execute_tool never
\* raises, so the node's own except branch is never taken.
tool_execution_node_routing(state, tools, behaviour) ==
    [state EXCEPT !.error = Some("Tool execution error"),
                  !.metadata.steps = Append(@, "tool_execution")]
tool_execution_node_on(state, tools, behaviour) ==
    LET q == lower(state.query)
        numbers == findall_digits(q, <<>>)
        chosen == ToolChosen(state.query)
        result == IF chosen = None THEN state.tool_result
                  ELSE IF chosen[1] = "get_current_date"
                  THEN Some("Current date: "
                            \o Join(execute_tool(tools, "get_current_date", <<>>,
                                                 behaviour)))
                  ELSE Some("Calculation result: "
                            \o Join(execute_tool(tools, "calculate",
                                   [expression |-> numbers[1] \o <<"+">> \o numbers[2]],
                                   behaviour)))
    IN [state EXCEPT !.tool_result = result,
                     !.metadata.steps = Append(@, "tool_execution")]

\* tool_execution_node on the registry as the import of tools.py leaves it
tool_execution_node(state) ==
    tool_execution_node_on(state, registry, Returned(<<>>))

NoInformation ==
    "I couldn't find any relevant information in your documents to answer this question. Please upload relevant documents first."
SpecificApology ==
    "I encountered a specific error while generating the answer. Please try again."
UnexpectedApology ==
    "I encountered an unexpected error while generating the answer. Please try again."

\* generation_node calls ollama_client.generate_with_context
CallsLLM_documents(state) == TruthyList(state.context_documents)
CallsLLM(state) ==
    TruthyList(state.context_documents) \/ TruthyStr(state.tool_result)

\* generate_with_context reads metadata.get(...) of every context document
\* before it calls the model: a metadata that is no dict raises AttributeError.
PromptRaises(state) ==
    /\ state.context_documents # None
    /\ \E i \in 1..Len(state.context_documents[1]) :
          state.context_documents[1][i].metadata.kind # "dict"

\* generation_node; `llm` is the outcome of the LLM call when one is made.
generation_node(state, llm) ==
    IF ~CallsLLM(state)
    THEN [state EXCEPT !.answer = Some(NoInformation)]
    ELSE IF llm.ok
    THEN [state EXCEPT
             !.answer = Some(IF TruthyStr(state.tool_result)
                             THEN state.tool_result[1] \o "\n\n" \o llm.value
                             ELSE llm.value),
             !.metadata.steps = Append(@, "generation"),
             !.metadata.context_documents_used = Some(Len(state.context_documents[1]))]
    ELSE IF IsValueOrRuntimeError(llm.exc)
    THEN [state EXCEPT !.error = Some("Generation error: " \o llm.exc.msg),
                       !.answer = Some(SpecificApology)]
    ELSE [state EXCEPT !.error = Some("Unexpected generation error: " \o llm.exc.msg),
                       !.answer = Some(UnexpectedApology)]

\* error_node
error_node(state) ==
    [state EXCEPT
        !.answer = Some("An error occurred: "
                        \o (IF state.error = None THEN "None" ELSE state.error[1])),
        !.metadata.steps = Append(@, "error")]

-----------------------------------------------------------------------------
(* The graph (workflow/graph.py) *)

\* check_error
check_error_never(state) == "reranking"
check_error(state) == IF TruthyStr(state.error) THEN "error" ELSE "reranking"

\* should_use_tool
should_use_tool(state) ==
    IF state.tool_needed # None /\ state.tool_needed[1] THEN "tool_execution"
    ELSE "generation"

\* The edges build_rag_graph adds out of each node.
EdgeFrom_skip(node, state) ==
    CASE node = "retrieval" -> check_error(state)
      [] node = "reranking" -> should_use_tool(state)
      [] node = "tool_analysis" -> should_use_tool(state)
      [] node = "tool_execution" -> "generation"
      [] node = "generation" -> "END"
      [] node = "error" -> "END"
EdgeFrom_checked(node, state) ==
    CASE node = "retrieval" -> check_error(state)
      [] node = "reranking" -> "tool_analysis"
      [] node = "tool_analysis" -> should_use_tool(state)
      [] node = "tool_execution" -> "generation"
      [] node = "generation" -> IF TruthyStr(state.error) THEN "error" ELSE "END"
      [] node = "error" -> "END"
EdgeFrom(node, state) ==
    CASE node = "retrieval" -> check_error(state)
      [] node = "reranking" -> "tool_analysis"
      [] node = "tool_analysis" -> should_use_tool(state)
      [] node = "tool_execution" -> "generation"
      [] node = "generation" -> "END"
      [] node = "error" -> "END"

-----------------------------------------------------------------------------
(* RAGPipeline.process_query (pipeline.py) *)

\* The HybridRetriever instances: the module-level one of workflow/nodes.py
\* and the one every RAGPipeline constructs for its request.
NodeRetriever == "nodes"
PipelineRetriever_shared(p) == NodeRetriever
PipelineRetriever(p) == p
Instances == {NodeRetriever} \cup Procs

\* calculate_confidence_score: sum(scores) / len(scores) as the fraction
\* <<sum, len>>; r.get("score", 0.0) is 0.0 for a result without the key.
RECURSIVE SumScores(_)
SumScores(results) ==
    IF results = <<>> THEN 0
    ELSE (IF Head(results).score = None THEN 0 ELSE Head(results).score[1])
         + SumScores(Tail(results))
calculate_confidence_score(results) ==
    IF results = <<>> THEN <<0, 1>> ELSE <<SumScores(results), Len(results)>>

\* One entry of _format_sources (the filename lookup aside).
FormatSource(doc) ==
    [document_id |-> doc.metadata.document_id,
     chunk_index |-> IF doc.metadata.chunk_index = None THEN 0
                     ELSE doc.metadata.chunk_index[1],
     relevance_score |-> IF doc.rerank_score # None /\ doc.rerank_score[1] # 0
                         THEN doc.rerank_score[1]
                         ELSE IF doc.rrf_score # None /\ doc.rrf_score[1] # 0
                         THEN doc.rrf_score[1]
                         ELSE IF doc.score # None THEN doc.score[1] ELSE 0]

\* _format_sources raises without any lookup failing: iterating None, or
\* metadata.get on a metadata that is no dict.
FormatSourcesRaises(context_documents) ==
    \/ context_documents = None
    \/ \E i \in 1..Len(context_documents[1]) :
          context_documents[1][i].metadata.kind # "dict"

\* _format_sources looks a filename up
LooksUpFilename(context_documents) ==
    /\ context_documents # None
    /\ \E i \in 1..Len(context_documents[1]) :
          context_documents[1][i].metadata.document_id # None

\* The response process_query builds from the final state.
Response(final_state) ==
    [answer |-> final_state.answer,
     sources |-> [i \in 1..Len(final_state.context_documents[1]) |->
                     FormatSource(final_state.context_documents[1][i])],
     confidence |-> IF TruthyList(final_state.context_documents)
                    THEN calculate_confidence_score(final_state.context_documents[1])
                    ELSE <<0, 1>>,
     steps |-> final_state.metadata.steps,
     documents_retrieved |-> IF final_state.metadata.documents_retrieved = None THEN 0
                             ELSE final_state.metadata.documents_retrieved[1],
     documents_used |-> IF final_state.metadata.context_documents_used = None THEN 0
                        ELSE final_state.metadata.context_documents_used[1]]

\* build_user_index: the chunk lookup raises, or the user's chunks (if any)
\* are built into the pipeline's own retriever; then create_initial_state and
\* graph.invoke enter the graph at "retrieval".
BuildUserIndex(p) ==
    /\ pc[p] = "build_user_index"
    /\ calls' = [calls EXCEPT ![p] = Append(@, "db_chunks")]
    /\ \/ /\ pc' = [pc EXCEPT ![p] = "raised"]
          /\ UNCHANGED index
       \/ LET rows == UserChunks(st[p].user_id)
              formatted_chunks == [i \in 1..Len(rows) |-> FormatChunk(rows[i])]
          IN /\ index' = IF rows = <<>> THEN index
                         ELSE [index EXCEPT ![PipelineRetriever(p)] =
                                  build_index(@, formatted_chunks)]
             /\ pc' = [pc EXCEPT ![p] = "retrieval"]
    /\ UNCHANGED <<st, ran, searched, resp, reranker_model>>
    /\ UNCHANGED <<cvars, uvars>>

\* The engine runs `node` on the request's state and follows the edge.
RunNode(p, node, state) ==
    /\ st' = [st EXCEPT ![p] = state]
    /\ ran' = [ran EXCEPT ![p] = Append(@, node)]
    /\ pc' = [pc EXCEPT ![p] = EdgeFrom(node, state)]

RetrievalNode(p) ==
    /\ pc[p] = "retrieval"
    /\ LET idx == index[NodeRetriever]
       IN /\ \E scores \in [1..Len(idx.corpus) -> Scores] :
             \E vec \in {Returned(d) : d \in VectorResults(st[p].user_id, VECTOR_TOP_K)}
                        \cup {Raised(e) : e \in Excs} :
                /\ RunNode(p, "retrieval",
                           retrieval_node(st[p], hybrid_search(idx, scores, vec, 10)))
                /\ calls' = [calls EXCEPT ![p] = @ \o
                       <<"bm25_search",
                         IF vec.ok THEN "vector_search" ELSE "vector_search raised">>]
          /\ searched' = [searched EXCEPT ![p] = Some(idx.corpus)]
    /\ UNCHANGED <<index, resp, reranker_model>>
    /\ UNCHANGED <<cvars, uvars>>

RerankingNode(p) ==
    /\ pc[p] = "reranking"
    /\ LET n == IF TruthyList(st[p].hybrid_results)
                THEN Len(st[p].hybrid_results[1]) ELSE 0
           predicts == reranker_model /\ n > 0
       IN /\ \E predicted \in (IF predicts THEN Predictions(n) ELSE {None}) :
                RunNode(p, "reranking", reranking_node(st[p], reranker_model, predicted))
          /\ calls' = [calls EXCEPT ![p] = IF predicts THEN Append(@, "predict") ELSE @]
    /\ UNCHANGED <<index, searched, resp, reranker_model>>
    /\ UNCHANGED <<cvars, uvars>>

ToolAnalysisNode(p) ==
    /\ pc[p] = "tool_analysis"
    /\ RunNode(p, "tool_analysis", tool_analysis_node(st[p]))
    /\ UNCHANGED <<index, searched, calls, resp, reranker_model>>
    /\ UNCHANGED <<cvars, uvars>>

ToolExecutionNode(p) ==
    /\ pc[p] = "tool_execution"
    /\ RunNode(p, "tool_execution", tool_execution_node(st[p]))
    /\ calls' = [calls EXCEPT ![p] =
                    IF ToolChosen(st[p].query) = None THEN @
                    ELSE Append(@, "tool:" \o ToolChosen(st[p].query)[1])]
    /\ UNCHANGED <<index, searched, resp, reranker_model>>
    /\ UNCHANGED <<cvars, uvars>>

\* What the LLM service may do when called: answer (possibly with the empty
\* string) or fail.
LLMOutcomes ==
    {Returned("Paris is the capital of France."), Returned("")}
    \cup {Raised(e) : e \in Excs}

GenerationNode(p) ==
    /\ pc[p] = "generation"
    /\ IF ~CallsLLM(st[p])
       THEN /\ RunNode(p, "generation", generation_node(st[p], Returned("")))
            /\ UNCHANGED calls
       ELSE IF PromptRaises(st[p])
       THEN /\ RunNode(p, "generation", generation_node(st[p],
                    Raised([type |-> "AttributeError", msg |-> "no attribute 'get'"])))
            /\ UNCHANGED calls
       ELSE \E llm \in LLMOutcomes :
               /\ RunNode(p, "generation", generation_node(st[p], llm))
               /\ calls' = [calls EXCEPT ![p] =
                      Append(@, IF llm.ok THEN "llm" ELSE "llm raised")]
    /\ UNCHANGED <<index, searched, resp, reranker_model>>
    /\ UNCHANGED <<cvars, uvars>>

ErrorNode(p) ==
    /\ pc[p] = "error"
    /\ RunNode(p, "error", error_node(st[p]))
    /\ UNCHANGED <<index, searched, calls, resp, reranker_model>>
    /\ UNCHANGED <<cvars, uvars>>

\* process_query after graph.invoke: confidence, sources, response.  Anything
\* raised here is logged and raised again to the caller.
Respond(p) ==
    /\ pc[p] = "END"
    /\ IF FormatSourcesRaises(st[p].context_documents)
       THEN /\ pc' = [pc EXCEPT ![p] = "raised"]
            /\ UNCHANGED <<resp, calls>>
       ELSE /\ calls' = [calls EXCEPT ![p] =
                           IF LooksUpFilename(st[p].context_documents)
                           THEN Append(@, "db_filename") ELSE @]
            /\ \/ /\ LooksUpFilename(st[p].context_documents)
                  /\ pc' = [pc EXCEPT ![p] = "raised"]
                  /\ UNCHANGED resp
               \/ /\ pc' = [pc EXCEPT ![p] = "returned"]
                  /\ resp' = [resp EXCEPT ![p] = Some(Response(st[p]))]
    /\ UNCHANGED <<st, ran, index, searched, reranker_model>>
    /\ UNCHANGED <<cvars, uvars>>

Step(p) ==
    \/ BuildUserIndex(p)
    \/ RetrievalNode(p)
    \/ RerankingNode(p)
    \/ ToolAnalysisNode(p)
    \/ ToolExecutionNode(p)
    \/ GenerationNode(p)
    \/ ErrorNode(p)
    \/ Respond(p)

Next == \E p \in Procs : Step(p)

-----------------------------------------------------------------------------
(* The retrievers called on their own *)

\* Bound on the top_k arguments tried.
MaxTopK == 3

\* The retriever that is called: the one a RAGPipeline constructs.
UnitRetriever == PipelineRetriever("p1")

\* formatted_chunks of build_user_index for user u
formatted_chunks(u) == [i \in 1..Len(UserChunks(u)) |-> FormatChunk(UserChunks(u)[i])]

\* A chunk dict with an "id", as a caller other than build_user_index may pass.
IdChunk(i, content) ==
    [content |-> content, metadata |-> Meta("dict", Some(9), Some(1), Some(i)),
     chunk_index |-> i, id |-> Some("c" \o ToString(i)), owner |-> 1]

\* The chunk lists build_index is called with: none, a user's formatted
\* chunks, three chunks with ids, and a list whose second chunk lacks "content".
IndexCorpora ==
    { <<>>, formatted_chunks(1), formatted_chunks(2),
      << IdChunk(0, Some(<<"alpha">>)), IdChunk(1, Some(<<"beta">>)),
         IdChunk(2, Some(<<"alpha", "beta">>)) >>,
      << IdChunk(0, Some(<<"alpha">>)), IdChunk(1, None) >> }

\* BM25Retriever.build_index(chs)
BuildIndexCall ==
    /\ call.op \in {"index", "build_index", "search", "hybrid_search"}
    /\ \E chs \in IndexCorpora :
          /\ index' = [index EXCEPT ![UnitRetriever] = build_index(@, chs)]
          /\ call' = [op |-> "build_index", chunks |-> chs,
                      before |-> index[UnitRetriever],
                      raised |-> build_index_raises(chs)]
    /\ UNCHANGED <<pc, st, ran, searched, calls, resp, reranker_model>>
    /\ UNCHANGED <<page_texts, page_pos, all_chunks, global_chunk_index>>
    /\ UNCHANGED cvars

\* The scores get_scores gives: one per chunk of the scorer's corpus.
ScoresOf(idx) == [1..(IF idx.bm25 = None THEN 0 ELSE Len(idx.bm25[1])) -> Scores]

\* BM25Retriever.search(query, top_k)
SearchCall ==
    /\ call.op \in {"index", "build_index", "search", "hybrid_search"}
    /\ \E scores \in ScoresOf(index[UnitRetriever]), top_k \in 0..MaxTopK :
          call' = [op |-> "search", scores |-> scores, top_k |-> top_k,
                   before |-> index[UnitRetriever],
                   result |-> bm25_search(index[UnitRetriever], scores, top_k)]
    /\ UNCHANGED pvars
    /\ UNCHANGED <<page_texts, page_pos, all_chunks, global_chunk_index>>
    /\ UNCHANGED cvars

\* HybridRetriever.search(query, user_id) on the same retriever: the keyword
\* search, the vector search for the user, and the fusion of the two lists.
HybridSearchCall ==
    /\ call.op \in {"index", "build_index", "search", "hybrid_search"}
    /\ \E u \in Users, scores \in ScoresOf(index[UnitRetriever]) :
       \E vec \in {Returned(d) : d \in VectorResults(u, VECTOR_TOP_K)}
                  \cup {Raised(e) : e \in Excs} :
          call' = [op |-> "hybrid_search", user_id |-> u,
                   bm25_results |-> bm25_search(index[UnitRetriever], scores, BM25_TOP_K),
                   vector_results |-> vec,
                   result |-> hybrid_search(index[UnitRetriever], scores, vec, 10)]
    /\ UNCHANGED pvars
    /\ UNCHANGED <<page_texts, page_pos, all_chunks, global_chunk_index>>
    /\ UNCHANGED cvars

IndexNext == BuildIndexCall \/ SearchCall \/ HybridSearchCall

\* Bound on the length of the lists given to the fusion.
MaxFuse == 2

\* A result dict of one retriever with the given id and raw score.
FuseItem(id, score, source) ==
    Doc(id, <<id>>, Meta("dict", Some(1), Some(1), Some(0)), Some(score), None,
        source, None, 1)

\* The result lists of one retriever: up to MaxFuse results with distinct ids,
\* each with any raw score.
FuseLists(source) ==
    UNION {{[k \in 1..n |-> FuseItem(ids[k], raw[k], source)] :
               ids \in {f \in [1..n -> {"a", "b", "c"}] :
                          \A i, j \in 1..n : i # j => f[i] # f[j]},
               raw \in [1..n -> {1, 2}]} :
           n \in 0..MaxFuse}

\* HybridRetriever._reciprocal_rank_fusion(bm25_results, vector_results, top_k)
FuseCall ==
    /\ call.op = "fuse" /\ ~call.done
    /\ call' = [call EXCEPT
                   !.done = TRUE,
                   !.result = reciprocal_rank_fusion(call.bm25_results,
                                                     call.vector_results, call.top_k)]
    /\ UNCHANGED <<page_texts, page_pos, all_chunks, global_chunk_index>>
    /\ UNCHANGED <<cvars, pvars>>

\* Reranker.rerank(query, documents, top_k) on a reranker whose model is
\* loaded or not; predict returns any scores or raises.
RerankCall ==
    /\ call.op = "rerank" /\ ~call.done
    /\ \E predicted \in (IF call.model /\ call.documents # <<>>
                          THEN Predictions(Len(call.documents)) ELSE {None}) :
          call' = [call EXCEPT
                      !.done = TRUE,
                      !.result = rerank(call.model, call.documents, call.top_k, predicted)]
    /\ UNCHANGED <<page_texts, page_pos, all_chunks, global_chunk_index>>
    /\ UNCHANGED <<cvars, pvars>>

\* ---- reranking_node called on its own ----

\* Bound on the number of fused candidates the node is given.
MaxDocs == 6

\* n fused candidates, in fused order.
Candidates(n) == [k \in 1..n |-> FuseItem("d" \o ToString(k), 1, "hybrid")]

\* reranking_node(state) on the state retrieval_node leaves, followed by the
\* edge out of "reranking"; predict returns any scores or raises.
RerankingNodeCall ==
    /\ call.op = "reranking_node" /\ ~call.done
    /\ \E predicted \in (IF call.model /\ TruthyList(call.state.hybrid_results)
                          THEN Predictions(Len(call.state.hybrid_results[1]))
                          ELSE {None}) :
          LET after == reranking_node(call.state, call.model, predicted)
          IN call' = [call EXCEPT
                         !.done = TRUE,
                         !.predicted = predicted,
                         !.result = after,
                         !.next = EdgeFrom("reranking", after)]
    /\ UNCHANGED <<page_texts, page_pos, all_chunks, global_chunk_index>>
    /\ UNCHANGED <<cvars, pvars>>

\* ---- the tools called on their own ----

MaxExpr == 3

\* The characters expressions are made of: digits, every operator character,
\* parentheses, the dot, the space and a letter.
ExprChars == {"0", "1", "2", "+", "-", "*", "/", "%", "(", ")", ".", " ", "a"}

\* Longer expressions: "1+2*3", "0**-1", "2**-1", "1//2", "-7%3", "1.5+1",
\* "(-8)**.5", "(-8)**.5%2", "abs(1)".
ExprSamples ==
    { <<"1", "+", "2", "*", "3">>, <<"0", "*", "*", "-", "1">>,
      <<"2", "*", "*", "-", "1">>, <<"1", "/", "/", "2">>,
      <<"-", "7", "%", "3">>, <<"1", ".", "5", "+", "1">>,
      <<"(", "-", "8", ")", "*", "*", ".", "5">>,
      <<"(", "-", "8", ")", "*", "*", ".", "5", "%", "2">>,
      <<"a", "b", "s", "(", "1", ")">> }

Exprs == ExprSamples \cup UNION { [1..n -> ExprChars] : n \in 0..MaxExpr }

\* What the function of a tool registered by register_tool may do.
ToolBehaviours ==
    {Returned(<<"42">>)} \cup { Raised([type |-> e.type, msg |-> <<e.msg>>]) : e \in Excs }

\* ToolRegistry.calculate(expression)
CalculateCall ==
    /\ call.op = "calculate" /\ ~call.done
    /\ call' = [call EXCEPT !.done = TRUE, !.result = calculate(call.expression)]
    /\ UNCHANGED <<page_texts, page_pos, all_chunks, global_chunk_index>>
    /\ UNCHANGED <<cvars, pvars>>

\* ToolExecutor.execute_tool(tool_name, args)
ExecuteToolCall ==
    /\ call.op = "execute_tool" /\ ~call.done
    /\ call' = [call EXCEPT
                  !.done = TRUE,
                  !.result = execute_tool(call.tools, call.tool_name, call.tool_args,
                                          call.behaviour)]
    /\ UNCHANGED <<page_texts, page_pos, all_chunks, global_chunk_index>>
    /\ UNCHANGED <<cvars, pvars>>

ToolNext == CalculateCall \/ ExecuteToolCall

\* The names and the functions the registry's methods are called with.
ToolNames == {"calculate", "lookup", "search_web"}
ToolFuncs == {"f", "g"}

\* tool_registry.register_tool(name, func)
RegisterToolCall ==
    /\ call.op = "registry"
    /\ \E name \in ToolNames, func \in ToolFuncs :
          call' = [call EXCEPT !.tools = register_tool(call.tools, name, func),
                               !.last = <<"register_tool", name, func>>,
                               !.result = None]
    /\ UNCHANGED <<page_texts, page_pos, all_chunks, global_chunk_index>>
    /\ UNCHANGED <<cvars, pvars>>

\* tool_registry.get_tool(name)
GetToolCall ==
    /\ call.op = "registry"
    /\ \E name \in ToolNames \cup {"get_current_date"} :
          call' = [call EXCEPT !.last = <<"get_tool", name>>,
                               !.result = get_tool(call.tools, name)]
    /\ UNCHANGED <<page_texts, page_pos, all_chunks, global_chunk_index>>
    /\ UNCHANGED <<cvars, pvars>>

\* tool_registry.list_tools()
ListToolsCall ==
    /\ call.op = "registry"
    /\ call' = [call EXCEPT !.last = <<"list_tools">>,
                            !.result = list_tools(call.tools)]
    /\ UNCHANGED <<page_texts, page_pos, all_chunks, global_chunk_index>>
    /\ UNCHANGED <<cvars, pvars>>

RegistryNext == RegisterToolCall \/ GetToolCall \/ ListToolsCall

\* The registries tool_execution_node may find: the default one, or one where
\* register_tool has put another function under a default name.
NodeRegistries ==
    {registry, register_tool(registry, "calculate", "f"),
     register_tool(registry, "get_current_date", "f")}

\* tool_execution_node(state) on the state tool_analysis_node leaves, followed
\* by the edge out of "tool_execution".
ToolExecutionNodeCall ==
    /\ call.op = "tool_execution_node" /\ ~call.done
    /\ LET after == tool_execution_node_on(call.state, call.tools, call.behaviour)
       IN call' = [call EXCEPT
                      !.done = TRUE,
                      !.result = after,
                      !.next = EdgeFrom("tool_execution", after)]
    /\ UNCHANGED <<page_texts, page_pos, all_chunks, global_chunk_index>>
    /\ UNCHANGED <<cvars, pvars>>

NodeNext == RerankingNodeCall \/ ToolExecutionNodeCall


\* The chunker is not running.
ChunkOff ==
    /\ text = <<>> /\ chunk_size = 1 /\ chunk_overlap = 1
    /\ start = 0 /\ chunks = <<>> /\ cpc = "off"

\* No component is being called on its own.
NoCall == [op |-> "none"]
UnitOff ==
    /\ page_texts = <<>> /\ page_pos = 0 /\ all_chunks = <<>>
    /\ global_chunk_index = 0 /\ call = NoCall

\* No request is running.
PipeOff ==
    /\ pc = [p \in Procs |-> "idle"]
    /\ st = [p \in Procs |-> create_initial_state(Q_capital, 3)]
    /\ ran = [p \in Procs |-> <<>>]
    /\ index = [i \in Instances |-> EmptyIndex]
    /\ searched = [p \in Procs |-> None]
    /\ calls = [p \in Procs |-> <<>>]
    /\ resp = [p \in Procs |-> None]
    /\ reranker_model = FALSE

\* One request: any query of any user, the reranker loaded or not.
Init ==
    /\ ChunkOff
    /\ UnitOff
    /\ pc = [p \in Procs |-> IF p = "p1" THEN "build_user_index" ELSE "idle"]
    /\ \E q \in Queries, u \in Users :
          st = [p \in Procs |-> IF p = "p1" THEN create_initial_state(q, u)
                                ELSE create_initial_state(Q_capital, 3)]
    /\ ran = [p \in Procs |-> <<>>]
    /\ index = [i \in Instances |-> EmptyIndex]
    /\ searched = [p \in Procs |-> None]
    /\ calls = [p \in Procs |-> <<>>]
    /\ resp = [p \in Procs |-> None]
    /\ reranker_model \in BOOLEAN

Spec == Init /\ [][Next]_vars /\ WF_vars(Next)

\* The queries of the concurrent requests.
ConcQueries == {Q_capital, Q_Today}

\* Two requests in one process, interleaved node by node.
ConcInit ==
    /\ ChunkOff
    /\ UnitOff
    /\ pc = [p \in Procs |-> "build_user_index"]
    /\ st \in [Procs -> {create_initial_state(q, u) : q \in ConcQueries, u \in Users}]
    /\ ran = [p \in Procs |-> <<>>]
    /\ index = [i \in Instances |-> EmptyIndex]
    /\ searched = [p \in Procs |-> None]
    /\ calls = [p \in Procs |-> <<>>]
    /\ resp = [p \in Procs |-> None]
    /\ reranker_model \in BOOLEAN

ConcSpec == ConcInit /\ [][Next]_vars /\ \A p \in Procs : WF_vars(Step(p))

\* chunk_text called on any text with any chunker.
ChunkInit ==
    /\ text \in Texts
    /\ chunk_size \in 1..MaxSize
    /\ chunk_overlap \in 0..(MaxSize + 1)
    /\ start = 0
    /\ chunks = <<>>
    /\ cpc = "entry"
    /\ PipeOff
    /\ UnitOff

ChunkSpec == ChunkInit /\ [][ChunkNext]_vars /\ WF_vars(ChunkNext)

\* chunk_text_by_pages called on any list of pages with any chunker.
PagesInit ==
    /\ text = <<>> /\ start = 0 /\ chunks = <<>> /\ cpc = "off"
    /\ chunk_size \in 1..MaxSize
    /\ chunk_overlap \in 0..(MaxSize + 1)
    /\ PipeOff
    /\ page_texts \in PageLists
    /\ page_pos = 0 /\ all_chunks = <<>> /\ global_chunk_index = 0
    /\ call = [op |-> "chunk_text_by_pages", done |-> FALSE]

PagesSpec == PagesInit /\ [][PagesNext]_vars /\ WF_vars(PagesNext)

\* A freshly constructed retriever, then any sequence of builds and searches.
IndexInit ==
    /\ ChunkOff
    /\ PipeOff
    /\ page_texts = <<>> /\ page_pos = 0 /\ all_chunks = <<>>
    /\ global_chunk_index = 0
    /\ call = [op |-> "index"]

IndexSpec == IndexInit /\ [][IndexNext]_vars

\* _reciprocal_rank_fusion called on any two lists with any top_k.
FuseInit ==
    /\ ChunkOff
    /\ PipeOff
    /\ page_texts = <<>> /\ page_pos = 0 /\ all_chunks = <<>>
    /\ global_chunk_index = 0
    /\ \E b \in FuseLists("bm25"), v \in FuseLists("vector"), top_k \in 0..MaxTopK :
          call = [op |-> "fuse", bm25_results |-> b, vector_results |-> v,
                  top_k |-> top_k, done |-> FALSE, result |-> <<>>]

FuseSpec == FuseInit /\ [][FuseCall]_vars /\ WF_vars(FuseCall)

\* rerank called on any document list with any top_k.
RerankInit ==
    /\ ChunkOff
    /\ PipeOff
    /\ page_texts = <<>> /\ page_pos = 0 /\ all_chunks = <<>>
    /\ global_chunk_index = 0
    /\ \E model \in BOOLEAN, documents \in FuseLists("hybrid"), top_k \in 0..MaxTopK :
          call = [op |-> "rerank", model |-> model, documents |-> documents,
                  top_k |-> top_k, done |-> FALSE, result |-> <<>>]

RerankSpec == RerankInit /\ [][RerankCall]_vars /\ WF_vars(RerankCall)

\* calculate called on any expression, or execute_tool called with any name
\* and arguments on the default registry or on one with a further tool.
ToolInit ==
    /\ ChunkOff
    /\ PipeOff
    /\ page_texts = <<>> /\ page_pos = 0 /\ all_chunks = <<>>
    /\ global_chunk_index = 0
    /\ \/ \E expression \in Exprs :
             call = [op |-> "calculate", expression |-> expression, done |-> FALSE,
                     result |-> [text |-> "", error |-> FALSE, parsed |-> FALSE]]
       \/ \E tools \in {registry, register_tool(registry, "lookup", "f")},
             tool_name \in {"get_current_date", "calculate", "lookup", "search_web"},
             tool_args \in {<<>>, [expression |-> <<"1", "+", "2", "*", "3">>],
                            [expression |-> <<"1", "/", "0">>]},
             behaviour \in ToolBehaviours :
             call = [op |-> "execute_tool", tools |-> tools, tool_name |-> tool_name,
                     tool_args |-> tool_args, behaviour |-> behaviour,
                     done |-> FALSE, result |-> <<>>]

ToolSpec == ToolInit /\ [][ToolNext]_vars /\ WF_vars(ToolNext)

\* The module's tool_registry after import; its methods are then called in
\* any order.
RegistryInit ==
    /\ ChunkOff
    /\ PipeOff
    /\ page_texts = <<>> /\ page_pos = 0 /\ all_chunks = <<>>
    /\ global_chunk_index = 0
    /\ call = [op |-> "registry", tools |-> registry, last |-> <<>>, result |-> None]

RegistrySpec == RegistryInit /\ [][RegistryNext]_vars

\* reranking_node called on a state with any number of fused candidates, on a
\* reranker whose model is loaded or not; or tool_execution_node called on
\* the state of a query for which tool_analysis_node has set tool_needed.
NodeInit ==
    /\ ChunkOff
    /\ PipeOff
    /\ page_texts = <<>> /\ page_pos = 0 /\ all_chunks = <<>>
    /\ global_chunk_index = 0
    /\ \/ \E model \in BOOLEAN, n \in 0..MaxDocs :
             LET state == retrieval_node(create_initial_state(Q_capital, 1),
                                         Returned(Candidates(n)))
             IN call = [op |-> "reranking_node", state |-> state, model |-> model,
                        predicted |-> None, done |-> FALSE, result |-> state,
                        next |-> "reranking"]
       \/ \E query \in {q \in Queries : ToolNeeded(q)}, tools \in NodeRegistries,
             behaviour \in ToolBehaviours :
             LET state == tool_analysis_node(create_initial_state(query, 1))
             IN call = [op |-> "tool_execution_node", state |-> state,
                        tools |-> tools, behaviour |-> behaviour,
                        done |-> FALSE, result |-> state, next |-> "tool_execution"]

NodeSpec == NodeInit /\ [][NodeNext]_vars /\ WF_vars(NodeNext)

-----------------------------------------------------------------------------
(* Properties of the workflow and of process_query *)

\* x occurs in the sequence s
In(x, s) == \E i \in 1..Len(s) : s[i] = x

\* The graph has finished for request p.
Finished(p) == pc[p] \in {"END", "returned", "raised"} /\ ran[p] # <<>>

\* C1: for every query and every outcome of the collaborators, the final
\* state of a workflow run has `answer` set to a non-empty string.
C1_AnswerNonEmpty ==
    \A p \in Procs : Finished(p) => TruthyStr(st[p].answer)

\* The retrieval stage of request p has run and failed.
RetrievalFailed(p) == In("vector_search raised", calls[p])

\* C2: when the retrieval stage fails, `error` is set and the next stage is
\* `error`; reranking, tool_analysis, tool_execution and generation do not
\* run in that run.
C2_RetrievalFailureRoutesToError ==
    \A p \in Procs :
        RetrievalFailed(p) =>
            /\ TruthyStr(st[p].error)
            /\ \/ ran[p] = <<"retrieval">> /\ pc[p] = "error"
               \/ ran[p] = <<"retrieval", "error">> /\ Finished(p)

C2_Witness ==
    \E p \in Procs : RetrievalFailed(p) /\ ran[p] = <<"retrieval", "error">>

\* The lower-cased query contains none of the tool-trigger phrases.
NoTrigger(query) ==
    /\ ~AnyKeyword(lower(query), DateKeywords)
    /\ ~AnyKeyword(lower(query), CalculateKeywords)

\* C3: for a query without a trigger phrase, tool_analysis sets tool_needed
\* to false and the run goes from tool_analysis directly to generation:
\* tool_execution does not run and no tool is invoked.
C3_NoTriggerNoTool ==
    \A p \in Procs :
        (NoTrigger(st[p].query) /\ In("tool_analysis", ran[p])) =>
            /\ st[p].tool_needed = Some(FALSE)
            /\ ~In("tool_execution", ran[p])
            /\ pc[p] # "tool_execution"
            /\ \A i \in 1..Len(calls[p]) :
                  calls[p][i] \notin {"tool:get_current_date", "tool:calculate"}
            /\ \A i \in 1..Len(ran[p]) :
                  ran[p][i] = "tool_analysis" =>
                      IF i = Len(ran[p]) THEN pc[p] = "generation"
                      ELSE ran[p][i + 1] = "generation"

C3_Witness ==
    \E p \in Procs :
        /\ st[p].query = Q_update
        /\ In("tool_analysis", ran[p]) /\ In("generation", ran[p])

\* The transitions of the graph, entered at retrieval and left at END.
GraphEdges ==
    { <<"build_user_index", "retrieval">>,
      <<"retrieval", "error">>, <<"retrieval", "reranking">>,
      <<"reranking", "tool_analysis">>,
      <<"tool_analysis", "tool_execution">>, <<"tool_analysis", "generation">>,
      <<"tool_execution", "generation">>,
      <<"generation", "END">>, <<"error", "END">> }

\* The positions of a request outside the graph.
Outside == {"idle", "build_user_index", "END", "returned", "raised"}

\* C4: every workflow run starts in retrieval, each of its steps is one of
\* the graph's transitions, no stage runs twice, and the run reaches the
\* terminal after generation or error.
C4_GraphShape ==
    /\ [][\A p \in Procs :
            (pc'[p] # pc[p] /\ ~(pc[p] \in Outside /\ pc'[p] \in Outside)) =>
                <<pc[p], pc'[p]>> \in GraphEdges]_vars
    /\ [](\A p \in Procs :
            /\ \A i, j \in 1..Len(ran[p]) : ran[p][i] = ran[p][j] => i = j
            /\ ran[p] # <<>> => ran[p][1] = "retrieval"
            /\ Finished(p) => ran[p][Len(ran[p])] \in {"generation", "error"})
    /\ \A p \in Procs : (pc[p] = "retrieval") ~> (pc[p] = "END")

C4_Witness ==
    \E p \in Procs :
        /\ pc[p] = "END"
        /\ ran[p] = <<"retrieval", "reranking", "tool_analysis", "tool_execution",
                      "generation">>

\* C5: process_query never propagates an exception: whatever collaborator
\* fails, it returns a response whose answer is a non-empty string.
C5_NeverRaises ==
    \A p \in Procs :
        /\ pc[p] # "raised"
        /\ pc[p] = "returned" => TruthyStr(resp[p][1].answer)

\* C6: for a user with stored chunks, the index the retrieval stage searches
\* holds exactly that user's chunks, rebuilt just before the workflow ran.
C6_SearchesRebuiltIndex ==
    \A p \in Procs :
        (searched[p] # None /\ UserChunks(st[p].user_id) # <<>>) =>
            searched[p][1] = [i \in 1..Len(UserChunks(st[p].user_id)) |->
                                 FormatChunk(UserChunks(st[p].user_id)[i])]

\* C7: under every interleaving of the requests of different users, a fused
\* result that the keyword search contributed to is a chunk of the query's
\* own user.
C7_KeywordResultsOwnUser ==
    \A p \in Procs :
        st[p].hybrid_results # None =>
            \A i \in 1..Len(st[p].hybrid_results[1]) :
                LET d == st[p].hybrid_results[1][i]
                IN In("bm25", d.sources[1]) => d.owner = st[p].user_id

\* A request of a user without chunks searched after the other request, of a
\* user with chunks, had rebuilt its index.
C7_Witness ==
    \E p, q \in Procs :
        /\ p # q
        /\ UserChunks(st[p].user_id) = <<>>
        /\ UserChunks(st[q].user_id) # <<>>
        /\ index[PipelineRetriever(q)].bm25 # None
        /\ pc[q] = "retrieval"
        /\ st[p].hybrid_results # None
        /\ In("bm25_search", calls[p])

\* The score a retriever gave a document before the fusion: the BM25 score of
\* a keyword result, the distance of a vector result.
RawScore(doc) == IF doc.score # None THEN doc.score[1] ELSE doc.distance[1]
RECURSIVE SumRaw(_)
SumRaw(docs) == IF docs = <<>> THEN 0 ELSE RawScore(Head(docs)) + SumRaw(Tail(docs))

\* C21: the confidence process_query returns lies in [0,1]; it is the mean of
\* the raw retriever scores of the final context documents, keyword or vector,
\* and 0 when there are none.  (A confidence is the fraction <<sum, count>>.)
C21_ConfidenceIsMean ==
    \A p \in Procs :
        pc[p] = "returned" =>
            LET c == resp[p][1].confidence
                docs == st[p].context_documents
            IN /\ 0 <= c[1] /\ c[1] <= c[2]
               /\ IF TruthyList(docs)
                  THEN c[1] * Len(docs[1]) = SumRaw(docs[1]) * c[2]
                  ELSE c[1] = 0

-----------------------------------------------------------------------------
(* Properties of the chunker *)

Ceil(a, b) == (a + b - 1) \div b

\* chunk_text has returned a non-empty list for a chunker built with
\* chunk_size >= 1 and 0 <= overlap < chunk_size.
ChunkedWithSmallOverlap ==
    /\ cpc = "done" /\ chunks # <<>>
    /\ chunk_size >= 1 /\ 0 <= chunk_overlap /\ chunk_overlap < chunk_size

\* C8: with 0 <= overlap < chunk_size the chunks leave no character
\* uncovered: the first starts at 0, each later one starts at or before the
\* previous end, and the last ends at or after len(text).
C8_NoGaps ==
    ChunkedWithSmallOverlap =>
        /\ chunks[1].start_char = 0
        /\ \A i \in 2..Len(chunks) : chunks[i].start_char <= chunks[i - 1].end_char
        /\ chunks[Len(chunks)].end_char >= Len(text)

\* The contents of the chunks in order, each without the characters that
\* lie before the previous chunk's end_char.
RECURSIVE Reconstruct(_, _)
Reconstruct(chs, prev_end) ==
    IF chs = <<>> THEN <<>>
    ELSE LET c == Head(chs)
             overlap == Max(0, prev_end - c.start_char)
         IN SubSeq(c.content, overlap + 1, Len(c.content))
            \o Reconstruct(Tail(chs), c.end_char)

\* C9: with 0 <= overlap < chunk_size, concatenating the chunk contents with
\* the overlaps removed gives back the text, character for character.
C9_Reconstructs ==
    ChunkedWithSmallOverlap => Reconstruct(chunks, 0) = text

\* C10 as stated: for every non-empty text and overlap >= chunk_size >= 1,
\* chunk_text returns at least ceil(len(text)/chunk_size) chunks.
C10_AsStated ==
    (cpc = "done" /\ text # <<>> /\ chunk_size >= 1 /\ chunk_overlap >= chunk_size) =>
        Len(chunks) >= Ceil(Len(text), chunk_size)

\* C10 amended: for every text with a character that is not whitespace and
\* overlap >= chunk_size >= 1, chunk_text terminates (the loop can always
\* take its next step and never makes more than len(text) chunks) and
\* returns at least ceil(len(text)/chunk_size) chunks.
C10_ForwardProgress ==
    (~IsBlank(text) /\ chunk_size >= 1 /\ chunk_overlap >= chunk_size) =>
        /\ cpc # "done" => ENABLED ChunkNext
        /\ Len(chunks) <= Len(text)
        /\ cpc = "done" => Len(chunks) >= Ceil(Len(text), chunk_size)

C10_Witness ==
    /\ cpc = "done" /\ ~IsBlank(text)
    /\ chunk_overlap > chunk_size /\ chunk_size >= 2
    /\ Len(chunks) > Ceil(Len(text), chunk_size)
    /\ Len(chunks) >= 3

\* C11: for chunk_size >= 1 and overlap >= 0, every chunk has
\* start_char < end_char and the start_char values of consecutive chunks are
\* strictly increasing.
C11_StartsIncrease ==
    (chunk_size >= 1 /\ chunk_overlap >= 0) =>
        /\ \A i \in 1..Len(chunks) : chunks[i].start_char < chunks[i].end_char
        /\ \A i \in 2..Len(chunks) : chunks[i - 1].start_char < chunks[i].start_char

\* chunk_text returned three chunks or more, one of them after a forced step
\* and one after an ordinary step back by the overlap.
C11_Witness ==
    /\ cpc = "done" /\ Len(chunks) >= 3
    /\ \E i \in 2..Len(chunks) :
          chunks[i].start_char > chunks[i - 1].end_char - self_chunk_overlap
    /\ \E i \in 2..Len(chunks) :
          chunks[i].start_char = chunks[i - 1].end_char - self_chunk_overlap

\* C12: chunk_text_by_pages returns chunks numbered 0, 1, ..., n-1 in output
\* order, the chunk's own chunk_index and the one in its metadata agree, each
\* chunk carries the page number of the page it came from, and an empty or
\* blank page contributes no chunk.
C12_GlobalNumbering ==
    (call = [op |-> "chunk_text_by_pages", done |-> TRUE]) =>
        /\ \A k \in 1..Len(all_chunks) :
              /\ all_chunks[k].chunk_index = k - 1
              /\ all_chunks[k].metadata.chunk_index = k - 1
              /\ all_chunks[k].metadata.page = page_texts[all_chunks[k].origin].page
              /\ ~IsBlank(page_texts[all_chunks[k].origin].text)
        /\ \A k \in 2..Len(all_chunks) : all_chunks[k - 1].origin <= all_chunks[k].origin
        /\ \A i \in 1..Len(page_texts) :
              ~IsBlank(page_texts[i].text) =>
                  \E k \in 1..Len(all_chunks) : all_chunks[k].origin = i

\* A blank page between two pages that each gave chunks, the second of them
\* more than one.
C12_Witness ==
    /\ call = [op |-> "chunk_text_by_pages", done |-> TRUE]
    /\ \E i \in 1..Len(page_texts) : IsBlank(page_texts[i].text)
    /\ \E k \in 2..Len(all_chunks) :
          /\ all_chunks[k].origin > all_chunks[1].origin
          /\ k < Len(all_chunks) /\ all_chunks[k + 1].origin = all_chunks[k].origin

-----------------------------------------------------------------------------
(* Properties of the keyword index *)

\* The last call was search(query, top_k).
Searched == call.op = "search"

\* C13: search returns [] when no build has succeeded on the index (none was
\* made, or only builds with zero chunks, or builds that raised), and when
\* every chunk has a non-positive score for the query.
C13_EmptySearch ==
    Searched =>
        /\ call.before.bm25 = None => call.result = <<>>
        /\ (\A i \in 1..Len(call.scores) : call.scores[i] <= 0) => call.result = <<>>

\* A search with top_k > 0 on a built index whose scores are all non-positive,
\* one of them zero and one negative.
C13_Witness ==
    /\ Searched /\ call.top_k > 0 /\ call.before.bm25 # None
    /\ Len(call.before.corpus) = Len(call.scores)
    /\ \A i \in 1..Len(call.scores) : call.scores[i] <= 0
    /\ \E i, j \in 1..Len(call.scores) : call.scores[i] = 0 /\ call.scores[j] < 0
    /\ call.result = <<>>

\* C14: build_index([]) raises nothing and leaves corpus, tokenized corpus
\* and scorer as they were, so every search returns after it what it returned
\* before it.
C14_EmptyBuildNoOp ==
    (call.op = "build_index" /\ call.chunks = <<>>) =>
        /\ ~call.raised
        /\ index[UnitRetriever] = call.before
        /\ \A scores \in ScoresOf(call.before), top_k \in 0..MaxTopK :
              bm25_search(index[UnitRetriever], scores, top_k)
                  = bm25_search(call.before, scores, top_k)

\* build_index([]) was called on an index built from three chunks.
C14_Witness ==
    /\ call.op = "build_index" /\ call.chunks = <<>>
    /\ call.before.bm25 # None /\ Len(call.before.corpus) = 3
    /\ index[UnitRetriever].bm25 # None

\* The index searched is one a build succeeded on and none failed on since:
\* the scorer was made from self.corpus.
BuiltCorpus(idx) ==
    /\ idx.bm25 # None
    /\ Len(idx.corpus) = Len(idx.bm25[1])
    /\ \A i \in 1..Len(idx.corpus) :
          idx.corpus[i].content # None /\ idx.corpus[i].chunk_index = i - 1

\* The corpus position (1-based) of the k-th result; the corpora built here
\* give the chunk at position i the chunk_index i - 1.
ResultPos(k) == call.result[k].chunk_index[1] + 1

\* C15: on a built corpus, search(query, top_k) returns the
\* min(top_k, number of positive-score chunks) best chunks: only scores > 0,
\* in descending score order, equal scores in ascending corpus position.
C15_TopKBest ==
    (Searched /\ BuiltCorpus(call.before)) =>
        LET n == Len(call.result)
            positive == {i \in 1..Len(call.scores) : call.scores[i] > 0}
            returned == {ResultPos(k) : k \in 1..n}
        IN /\ n = Min(call.top_k, Cardinality(positive))
           /\ Cardinality(returned) = n
           /\ returned \subseteq positive
           /\ \A k \in 1..n :
                 /\ call.result[k].score = Some(call.scores[ResultPos(k)])
                 /\ call.result[k].content = call.before.corpus[ResultPos(k)].content[1]
           /\ \A k \in 2..n :
                 \/ call.scores[ResultPos(k - 1)] > call.scores[ResultPos(k)]
                 \/ /\ call.scores[ResultPos(k - 1)] = call.scores[ResultPos(k)]
                    /\ ResultPos(k - 1) < ResultPos(k)
           /\ \A i \in positive \ returned : \A k \in 1..n :
                 \/ call.scores[ResultPos(k)] > call.scores[i]
                 \/ call.scores[ResultPos(k)] = call.scores[i] /\ ResultPos(k) < i

\* Three positive scores, the best one last in the corpus and the other two
\* equal, searched with top_k = 2: the tie is cut by top_k.
C15_Witness ==
    /\ Searched /\ BuiltCorpus(call.before)
    /\ call.top_k = 2 /\ call.scores = <<1, 1, 2>>
    /\ Len(call.result) = 2
    /\ ResultPos(1) = 3 /\ ResultPos(2) = 1

\* The same stored chunk: same user, same chunk of the user's document.
SameChunk(a, b) ==
    a.owner = b.owner /\ a.chunk_index = b.metadata.chunk_index /\ a.content = b.content

\* C17: when the keyword search and the vector search of one retrieval both
\* return the same stored chunk, the two results carry the same id and the
\* chunk is in the fused results once, with both sources.
C17_SameChunkFusedOnce ==
    (call.op = "hybrid_search" /\ call.result.ok) =>
        \A i \in 1..Len(call.bm25_results) :
            \A j \in 1..Len(call.vector_results.value) :
                LET b == call.bm25_results[i]
                    v == call.vector_results.value[j]
                    hits == {k \in 1..Len(call.result.value) :
                                /\ call.result.value[k].owner = b.owner
                                /\ call.result.value[k].content = b.content}
                IN SameChunk(b, v) =>
                       /\ b.id = v.id
                       /\ Cardinality(hits) = 1
                       /\ \A k \in hits :
                             call.result.value[k].sources = Some(<<"bm25", "vector">>)

-----------------------------------------------------------------------------
(* Properties of the fusion *)

\* The 0-based rank of the result with this id in a list, -1 if absent.
RankOf(results, id) ==
    IF \E k \in 1..Len(results) : results[k].id = id
    THEN (CHOOSE k \in 1..Len(results) : results[k].id = id) - 1
    ELSE -1

\* 1/(60+r1+1) + 1/(60+r2+1) as the fraction <<numerator, denominator>>, with
\* only the term of the list the item is in when it is in one list only.
RankScore(id) ==
    LET r1 == RankOf(call.bm25_results, id)
        r2 == RankOf(call.vector_results, id)
    IN IF r1 >= 0 /\ r2 >= 0
       THEN <<(60 + r1 + 1) + (60 + r2 + 1), (60 + r1 + 1) * (60 + r2 + 1)>>
       ELSE IF r1 >= 0 THEN <<1, 60 + r1 + 1>> ELSE <<1, 60 + r2 + 1>>

\* The inputs of the call with every raw score replaced by 0.
WithoutRawScores(results) == [k \in 1..Len(results) |-> [results[k] EXCEPT !.score = Some(0)]]

\* The ids and fused scores of a fused list, in order.
Ranking(fused) == [k \in 1..Len(fused) |-> <<fused[k].id, fused[k].rrf_score>>]

\* C16: the fused score of an item is 1/(60+r1+1) + 1/(60+r2+1) over the
\* lists it is in (rrf_score is held in millionths), the output is sorted by
\* it descending and cut to top_k, and it depends on the ranks only, not on
\* the raw scores.
C16_FusedScores ==
    (call.op = "fuse" /\ call.done) =>
        LET res == call.result
            ids == {call.bm25_results[k].id : k \in 1..Len(call.bm25_results)}
                   \cup {call.vector_results[k].id : k \in 1..Len(call.vector_results)}
            out == {res[k].id : k \in 1..Len(res)}
            GreaterEq(x, y) == RankScore(x)[1] * RankScore(y)[2]
                                   >= RankScore(y)[1] * RankScore(x)[2]
        IN /\ Len(res) = Min(call.top_k, Cardinality(ids))
           /\ Cardinality(out) = Len(res) /\ out \subseteq ids
           /\ \A k \in 1..Len(res) :
                 res[k].rrf_score[1] * RankScore(res[k].id)[2]
                     = 1000000 * RankScore(res[k].id)[1]
           /\ \A k \in 2..Len(res) : GreaterEq(res[k - 1].id, res[k].id)
           /\ \A x \in ids \ out : \A k \in 1..Len(res) : GreaterEq(res[k].id, x)
           /\ Ranking(res) = Ranking(reciprocal_rank_fusion(
                                WithoutRawScores(call.bm25_results),
                                WithoutRawScores(call.vector_results), call.top_k))

-----------------------------------------------------------------------------
(* Properties of the reranker and of the tools *)

\* C18: without a scoring model, rerank returns the first top_k documents, in
\* input order and unmodified, for every document list and every top_k >= 0.
C18_DegradedTruncates ==
    (call.op = "rerank" /\ call.done /\ ~call.model) =>
        call.result = Slice(call.documents, 0, call.top_k)

\* An expression built only from numeric literals, the binary operators
\* + - * / % **, unary + and -, and parentheses: it parses, and its tree has
\* no other node.
RECURSIVE Arithmetic(_)
Arithmetic(node) ==
    CASE node.n = "Constant" -> TRUE
      [] node.n = "BinOp" ->
           /\ node.op \in {"+", "-", "*", "/", "%", "**"}
           /\ Arithmetic(node.left) /\ Arithmetic(node.right)
      [] node.n = "UnaryOp" -> Arithmetic(node.operand)
      [] OTHER -> FALSE
WellFormed(expression) ==
    ast_parse(expression).ok /\ Arithmetic(ast_parse(expression).node)

\* The exception type evaluating a well-formed expression ends with ("" if
\* it ends with a value).
Fails(expression) ==
    LET r == _eval(ast_parse(expression).node)
    IN IF r.ok THEN "" ELSE r.exc.type

Letters ==
    {"a", "b", "c", "d", "e", "f", "g", "h", "i", "j", "k", "l", "m",
     "n", "o", "p", "q", "r", "s", "t", "u", "v", "w", "x", "y", "z"}
HasLetter(expression) ==
    \E k \in 1..Len(expression) : expression[k] \in Letters

Calculated == call.op = "calculate" /\ call.done

ToolFailed ==
    /\ call.op = "execute_tool" /\ call.done
    /\ call.tool_name \in Names(call.tools)
    /\ ~invoke(get_tool(call.tools, call.tool_name)[1], call.tool_args,
               call.behaviour).ok

\* C20: execute_tool returns an error string for a name that is not
\* registered, and when the registered tool raises, the error string it
\* returns contains the name of the tool.
C20_ErrorNamesTool ==
    /\ (call.op = "execute_tool" /\ call.done /\ call.tool_name \notin Names(call.tools)) =>
           Join(call.result) = "Error: Tool '" \o call.tool_name \o "' not found"
    /\ ToolFailed =>
           /\ Head(call.result) = "Error executing tool: "
           /\ \E k \in 1..Len(call.result) : call.result[k] = call.tool_name

\* C22: across every register, get and list operation a registered name
\* stays registered and get(name) returns the same function as before: an
\* entry of the registry is never replaced or removed.
C22_AppendOnly ==
    [][\A name \in Names(call.tools) :
          get_tool(call.tools', name) = get_tool(call.tools, name)]_vars

\* predict was called by the reranking stage and raised.
ScoringFailed ==
    /\ call.op = "reranking_node" /\ call.done
    /\ call.model /\ TruthyList(call.state.hybrid_results)
    /\ call.predicted = None

\* C23: when the scoring model raises while the reranking stage runs, error
\* stays unset, context_documents is the fused candidates in fused order cut
\* to the first 5, and the next stage is tool_analysis.
C23_FailedScoringDegrades ==
    ScoringFailed =>
        /\ call.result.error = None
        /\ call.result.context_documents =
               Some(Slice(call.state.hybrid_results[1], 0, 5))
        /\ call.result.reranked_results = call.result.context_documents
        /\ call.next = "tool_analysis"

\* The scoring model raised on six fused candidates: the first five are kept.
C23_Witness ==
    /\ ScoringFailed
    /\ Len(call.state.hybrid_results[1]) = 6
    /\ call.result.context_documents = Some(Candidates(5))
    /\ call.next = "tool_analysis"

\* C24: whenever tool_analysis has set tool_needed, tool_execution invokes
\* the tool of the kind whose trigger matched (the timestamp tool for a date
\* trigger, the evaluator for an arithmetic trigger) and leaves tool_result
\* a non-empty string.
C24_TriggeredToolRuns ==
    \A p \in Procs :
        (In("tool_execution", ran[p]) /\ st[p].tool_needed = Some(TRUE)) =>
            /\ In(IF AnyKeyword(lower(st[p].query), DateKeywords)
                  THEN "tool:get_current_date" ELSE "tool:calculate", calls[p])
            /\ TruthyStr(st[p].tool_result)

\* The call execute_tool makes for the query of the tool_execution_node call.
NodeToolCall ==
    LET numbers == findall_digits(lower(call.state.query), <<>>)
        name == ToolChosen(call.state.query)[1]
    IN [name |-> name,
        expression |-> IF Len(numbers) >= 2 THEN numbers[1] \o <<"+">> \o numbers[2]
                       ELSE <<>>,
        outcome |-> invoke(get_tool(call.tools, name)[1],
                           IF name = "calculate"
                           THEN [expression |-> numbers[1] \o <<"+">> \o numbers[2]]
                           ELSE <<>>,
                           call.behaviour)]

\* tool_execution_node has invoked a tool and the tool has failed: the
\* function raised, or the evaluator returned one of its error strings.
NodeToolFailed ==
    /\ call.op = "tool_execution_node" /\ call.done
    /\ ToolChosen(call.state.query) # None
    /\ \/ ~NodeToolCall.outcome.ok
       \/ /\ get_tool(call.tools, "calculate") = Some("calculate")
          /\ NodeToolCall.name = "calculate"
          /\ calculate(NodeToolCall.expression).error

\* C25: when the tool invoked in tool_execution fails, the stage leaves error
\* unset, stores a string that describes the failure in tool_result, and the
\* run proceeds to generation, never to the error stage.
C25_ToolFailureIsReported ==
    NodeToolFailed =>
        /\ call.result.error = None
        /\ call.result.tool_result =
               Some((IF NodeToolCall.name = "calculate" THEN "Calculation result: "
                     ELSE "Current date: ")
                    \o (IF NodeToolCall.outcome.ok
                        THEN "Error: Invalid expression: "
                             \o SyntaxMessage(NodeToolCall.expression)
                        ELSE "Error executing tool: "
                             \o Join(NodeToolCall.outcome.exc.msg)))
        /\ call.next = "generation"

\* The function registered as "calculate" raised RuntimeError.
C25_Witness ==
    /\ NodeToolFailed
    /\ call.state.query = Q_calculate_2_13
    /\ call.tools = register_tool(registry, "calculate", "f")
    /\ call.result.tool_result =
           Some("Calculation result: Error executing tool: connection refused")
    /\ call.next = "generation"

\* The evaluator rejected "01+2", the sum built for the query "calculate 01 2".
C25_EvaluatorError ==
    /\ NodeToolFailed
    /\ call.tools = registry
    /\ NodeToolCall.expression = <<"0", "1", "+", "2">>
    /\ NodeToolCall.outcome.ok

\* The generation stage of request p has called the LLM.
LLMCalled(p) == In("llm", calls[p]) \/ In("llm raised", calls[p])

\* C26: generation calls the LLM exactly when context_documents is non-empty
\* or tool_result is set; when both are absent it sets answer to the canned
\* no-information message, leaves error unset and makes no LLM call.
C26_LLMCalledIffContext ==
    \A p \in Procs :
        In("generation", ran[p]) =>
            LET context == TruthyList(st[p].context_documents)
                              \/ st[p].tool_result # None
            IN /\ LLMCalled(p) <=> context
               /\ ~context => /\ st[p].answer = Some(NoInformation)
                              /\ st[p].error = None

\* Generation ran with neither context documents nor a tool result.
C26_Witness ==
    /\ In("generation", ran["p1"])
    /\ ~TruthyList(st["p1"].context_documents)
    /\ st["p1"].tool_result = None
    /\ st["p1"].answer = Some(NoInformation)
    /\ ~LLMCalled("p1")

\* C27: when the LLM call raises during generation, the state the run ends
\* with has error set and the fallback apology as answer, and the run goes
\* from generation to the end without running the error stage.
C27_LLMFailureEndsRun ==
    \A p \in Procs :
        In("llm raised", calls[p]) =>
            /\ TruthyStr(st[p].error)
            /\ st[p].answer \in {Some(SpecificApology), Some(UnexpectedApology)}
            /\ ran[p][Len(ran[p])] = "generation"
            /\ ~In("error", ran[p])
            /\ pc[p] \in {"END", "returned", "raised"}

\* The LLM raised RuntimeError and the run has ended after generation.
C27_Witness ==
    /\ In("llm raised", calls["p1"])
    /\ st["p1"].error = Some("Generation error: connection refused")
    /\ st["p1"].answer = Some(SpecificApology)
    /\ pc["p1"] = "returned"
    /\ ~In("error", ran["p1"])

\* The corpus, the tokenized corpus and the scorer of idx describe one chunk
\* list.
Describes(idx) ==
    IF idx.bm25 = None
    THEN idx.corpus = <<>> /\ idx.tokenized_corpus = <<>>
    ELSE /\ \A i \in 1..Len(idx.corpus) : idx.corpus[i].content # None
         /\ idx.tokenized_corpus =
                [i \in 1..Len(idx.corpus) |-> tokenize(idx.corpus[i].content[1])]
         /\ idx.bm25 = Some(idx.tokenized_corpus)

\* C28: after any sequence of build and search calls on one keyword index,
\* failing builds included, corpus, tokenized corpus and scorer describe the
\* same chunk list, and a build that failed has left all three as they were.
C28_IndexStaysConsistent ==
    /\ Describes(index[UnitRetriever])
    /\ (call.op = "build_index" /\ call.raised) => index[UnitRetriever] = call.before

\* C29: at the end of every run of the workflow metadata.steps lists exactly
\* the stages that were executed, each once and in the order of execution.
C29_StepsAreStagesRun ==
    \A p \in Procs : Finished(p) => st[p].metadata.steps = ran[p]

\* C30: for every non-empty text, chunk_size >= 1 and overlap >= 0, the
\* offsets of every chunk lie inside the text: 0 <= start_char < len(text)
\* and end_char <= len(text).
C30_OffsetsInsideText ==
    (text # <<>> /\ chunk_size >= 1 /\ chunk_overlap >= 0) =>
        \A i \in 1..Len(chunks) :
            /\ 0 <= chunks[i].start_char
            /\ chunks[i].start_char < Len(text)
            /\ chunks[i].end_char <= Len(text)

\* The part of C30 about start_char alone.
C30_StartInsideText ==
    (text # <<>> /\ chunk_size >= 1 /\ chunk_overlap >= 0) =>
        \A i \in 1..Len(chunks) :
            0 <= chunks[i].start_char /\ chunks[i].start_char < Len(text)

====
